---------------------------- MODULE Spec2Model ----------------------------
(***************************************************************************)
(* Budget ledger (SpendTracker) and the interception protocol of the       *)
(* client wrappers of agent-budget-guard.                                  *)
(*                                                                         *)
(* Money is counted in whole units (the code uses Python floats; the       *)
(* model is exact arithmetic on non-negative integers, so float rounding   *)
(* is outside the model).  Every SpendTracker method runs wholly inside    *)
(* `with self._lock`, so each method is one atomic step of the model.      *)
(* uuid4() is modelled by a counter that never repeats.                    *)
(***************************************************************************)
EXTENDS Integers, FiniteSets, Sequences, TLC

(* ------------------------------ bounds -------------------------------- *)
MaxBudget == 3
MaxCost == 2
MaxActual == 3
MaxIds == 3
NCalls == 2
NThreads == 3
MaxEstimate == 1

Budgets == 0..MaxBudget
Costs == 0..MaxCost
Actuals == 0..MaxActual
Ids == 1..MaxIds
Calls == 1..NCalls
Threads == 1..NThreads
\* budgets of a burst: from too small for one reserve to enough for all
BurstBudgets == 0..(NThreads * MaxCost)
\* a session's calls: estimates are positive (token counts and prices are); the
\* cost of the reported usage may be below, equal to or above the estimate;
\* the budget admits no call, one call or several
Estimates == 1..MaxEstimate
Usages == 0..(MaxEstimate + 1)
SessionBudgets == 0..(MaxEstimate + 1)

VARIABLES
  budget,        \* SpendTracker._budget
  spent,         \* SpendTracker._spent
  reserved,      \* SpendTracker._reserved
  reservations,  \* SpendTracker._reservations : id -> amount
  nextId,        \* direct callers of the tracker: the value the next uuid4() gives
  last,          \* direct callers of the tracker: the last call and its result
  on_budget_exceeded, \* session configuration: is the callback set
  pc,            \* per call: where the wrapper's create() / generator stands
  kind,          \* per admitted call: "sync", "async", "stream", "astream", "gstream"
  rid,           \* per call: reservation_id (0 before check_and_reserve returned)
  err,           \* per call: the error the transport raised / the caller saw
  elem,          \* per call: the stream element the generator is suspended on, or
                 \* the response create() got, up to the next step of the call
  effects,       \* history: per reservation id, the settlements that changed the ledger
  burstCost,     \* the amount every thread of a burst of reserves asks for
  on_warning,    \* session configuration: is the warning callback set
  fired,         \* BudgetedSession._fired_thresholds, shared by all wrappers
  warned,        \* history, per threshold: how often on_warning was called for it
  wsnap,         \* per call: the locals `spent` and `reserved` of _check_warnings
  widx,          \* per call: position of _check_warnings in warning_thresholds
  threshold_lock, \* per wrapper object: the call that holds its _threshold_lock
  notified,      \* history, per call: the errors on_budget_exceeded was called with
  ret,           \* per call: what create() returned to its caller
  lock,          \* SpendTracker._lock: the thread that holds it, 0 when it is free
  thr,           \* per thread, where the lock is modelled: its position inside the
                 \* tracker's methods, its locals and what it has read
  wrapper,       \* per call, where the caller's choice of object is modelled: the
                 \* wrapper object whose create() is called
  pricing,       \* PricingTable: _models (the keys) and _aliases
  fcall          \* where one function is looked at on its own: the call, its
                 \* arguments and what it returned

ledgerVars == <<budget, spent, reserved, reservations>>
callVars == <<on_budget_exceeded, pc, kind, rid, err, elem>>
warnVars == <<on_warning, fired, warned, wsnap, widx, threshold_lock>>
lockVars == <<lock, thr, wrapper>>
fnVars == <<pricing, fcall>>
vars == <<ledgerVars, nextId, last, callVars, effects, burstCost, warnVars, notified, ret,
          lockVars, fnVars>>

(* ------------------------- SpendTracker -------------------------------- *)

\* get_remaining / the local `remaining` of check_and_reserve
\* (fault: the reserved amount is left out)
Remaining_IgnoresReserved == budget - spent
\* (fault: the spend is left out)
Remaining_IgnoresSpent == budget - reserved
Remaining == budget - spent - reserved

\* the test `estimated_cost > remaining` of check_and_reserve
\* (fault: >= for >)
Exceeds_AtLeast(e) == e >= Remaining
Exceeds(e) == e > Remaining

\* what check_and_reserve(e) returns or raises, from the state it is called in;
\* u is the value uuid4() gives this call
ReserveResult(e, u) ==
  IF Exceeds(e)
    THEN [tag |-> "BudgetExceededError", estimated_cost |-> e, remaining |-> Remaining]
    ELSE [tag |-> "ok", id |-> u]

\* check_and_reserve(e): the effect on the ledger
\* (fault: reserved is raised before the test)
check_and_reserve_ReservesFirst(e, u) ==
  /\ reserved' = reserved + e
  /\ reservations' = IF Exceeds(e) THEN reservations ELSE (u :> e) @@ reservations
  /\ UNCHANGED <<budget, spent>>
check_and_reserve(e, u) ==
  IF Exceeds(e)
    THEN UNCHANGED ledgerVars
    ELSE /\ reserved' = reserved + e
         /\ reservations' = (u :> e) @@ reservations
         /\ UNCHANGED <<budget, spent>>

\* the empty dict
EmptyMap == [i \in {} |-> 0]

\* dict.pop(id)
Pop(id) == [i \in DOMAIN reservations \ {id} |-> reservations[i]]

\* what commit(id, actual) returns or raises
CommitResult(id) ==
  IF id \notin DOMAIN reservations THEN [tag |-> "ValueError"] ELSE [tag |-> "ok"]

\* commit(id, actual): the effect on the ledger
\* (fault: the reserved amount is recorded as spend)
commit_SpendsEstimate(id, actual) ==
  IF id \notin DOMAIN reservations
    THEN UNCHANGED ledgerVars
    ELSE /\ reservations' = Pop(id)
         /\ reserved' = reserved - reservations[id]
         /\ spent' = spent + reservations[id]
         /\ UNCHANGED budget
\* (fault: an unknown id is not refused)
commit_Unchecked(id, actual) ==
  IF id \notin DOMAIN reservations
    THEN /\ spent' = spent + actual
         /\ UNCHANGED <<budget, reserved, reservations>>
    ELSE /\ reservations' = Pop(id)
         /\ reserved' = reserved - reservations[id]
         /\ spent' = spent + actual
         /\ UNCHANGED budget
\* (fault: the entry is read, not popped)
commit_KeepsEntry(id, actual) ==
  IF id \notin DOMAIN reservations
    THEN UNCHANGED ledgerVars
    ELSE /\ reserved' = reserved - reservations[id]
         /\ spent' = spent + actual
         /\ UNCHANGED <<budget, reservations>>
commit(id, actual) ==
  IF id \notin DOMAIN reservations
    THEN UNCHANGED ledgerVars
    ELSE /\ reservations' = Pop(id)
         /\ reserved' = reserved - reservations[id]
         /\ spent' = spent + actual
         /\ UNCHANGED budget

\* rollback(id): the effect on the ledger; it never raises
\* (fault: the entry is read, not popped)
rollback_KeepsEntry(id) ==
  IF id \in DOMAIN reservations
    THEN /\ reserved' = reserved - reservations[id]
         /\ UNCHANGED <<budget, spent, reservations>>
    ELSE UNCHANGED ledgerVars
\* (fault: the amount released is also taken off the spend)
rollback_Unspends(id) ==
  IF id \in DOMAIN reservations
    THEN /\ reservations' = Pop(id)
         /\ reserved' = reserved - reservations[id]
         /\ spent' = spent - reservations[id]
         /\ UNCHANGED budget
    ELSE UNCHANGED ledgerVars
\* (fault: the entry is popped, the total is not lowered)
rollback_KeepsReserved(id) ==
  IF id \in DOMAIN reservations
    THEN /\ reservations' = Pop(id)
         /\ UNCHANGED <<budget, spent, reserved>>
    ELSE UNCHANGED ledgerVars
rollback(id) ==
  IF id \in DOMAIN reservations
    THEN /\ reservations' = Pop(id)
         /\ reserved' = reserved - reservations[id]
         /\ UNCHANGED <<budget, spent>>
    ELSE UNCHANGED ledgerVars

\* reset()
\* (fault: the reservation map is not cleared)
reset_KeepsReservations ==
  /\ spent' = 0
  /\ reserved' = 0
  /\ UNCHANGED <<budget, reservations>>
reset ==
  /\ spent' = 0
  /\ reserved' = 0
  /\ reservations' = EmptyMap
  /\ UNCHANGED budget

\* history of settlements: `op` on `id` is recorded when it finds `id` outstanding
Settles(id, op) ==
  effects' = IF id \in DOMAIN reservations
               THEN [effects EXCEPT ![id] = Append(@, op)]
               ELSE effects

NoEffects(D) == [i \in D |-> << >>]

(* ---------------- direct callers of the tracker (SpecLedger) ------------ *)

NoCall == [op |-> "none"]

\* the dict get_summary builds, and the locals of _check_warnings
NoSummary ==
  [budget |-> 0, spent |-> 0, reserved |-> 0, remaining |-> 0, utilization_percent |-> 0]

\* a thread that has not called anything
IdleThread ==
  [pc |-> "idle", op |-> "none", stream |-> FALSE, e |-> 0, id |-> 0,
   loc |-> 0, get |-> "none", sum |-> NoSummary, out |-> "none", cb |-> "none"]

\* no pricing table is loaded
NoPricing == [models |-> {}, aliases |-> << >>]

\* nothing has been called on a session; P is the pricing table and f the
\* function call that is looked at on its own
IdleCallsFn(D, P, f) ==
  /\ pricing = P
  /\ fcall = f
  /\ on_budget_exceeded = FALSE
  /\ lock = 0
  /\ thr = [t \in D |-> IdleThread]
  /\ wrapper = [c \in D |-> c]
  /\ pc = [c \in D |-> "idle"]
  /\ kind = [c \in D |-> "none"]
  /\ rid = [c \in D |-> 0]
  /\ err = [c \in D |-> "none"]
  /\ elem = [c \in D |-> [usage |-> FALSE, cost |-> 0]]
  /\ notified = [c \in D |-> << >>]
  /\ ret = [c \in D |-> "unset"]
  /\ on_warning = FALSE
  /\ fired = {}
  /\ warned = [i \in {} |-> 0]
  /\ wsnap = [c \in D |-> [spent |-> 0, reserved |-> 0]]
  /\ widx = [c \in D |-> 0]
  /\ threshold_lock = [w \in D |-> 0]

IdleCalls(D) == IdleCallsFn(D, NoPricing, NoCall)

\* SpendTracker.__init__ with budget_usd >= 0
NewTracker(b) ==
  /\ budget = b
  /\ spent = 0
  /\ reserved = 0
  /\ reservations = EmptyMap

LedgerInit ==
  /\ \E b \in Budgets : NewTracker(b)
  /\ nextId = 1
  /\ last = NoCall
  /\ IdleCalls(Calls)
  /\ effects = NoEffects(Ids)
  /\ burstCost = 0

LedgerReserve ==
  \E e \in Costs :
    /\ nextId <= MaxIds
    /\ check_and_reserve(e, nextId)
    /\ nextId' = IF ReserveResult(e, nextId).tag = "ok" THEN nextId + 1 ELSE nextId
    /\ last' = [op |-> "check_and_reserve", arg |-> e, result |-> ReserveResult(e, nextId)]
    /\ UNCHANGED <<callVars, effects, burstCost, lockVars, fnVars, warnVars, notified, ret>>

LedgerCommitOf(id, a) ==
  /\ commit(id, a)
  /\ last' = [op |-> "commit", id |-> id, arg |-> a, result |-> CommitResult(id)]
  /\ Settles(id, "commit")
  /\ UNCHANGED <<nextId, callVars, burstCost, lockVars, fnVars, warnVars, notified, ret>>

LedgerCommit == \E id \in Ids, a \in Actuals : LedgerCommitOf(id, a)

LedgerRollback ==
  \E id \in Ids :
    /\ rollback(id)
    /\ last' = [op |-> "rollback", id |-> id, found |-> id \in DOMAIN reservations,
                 result |-> [tag |-> "ok"]]
    /\ Settles(id, "rollback")
    /\ UNCHANGED <<nextId, callVars, burstCost, lockVars, fnVars, warnVars, notified, ret>>

LedgerReset ==
  /\ reset
  /\ last' = [op |-> "reset", result |-> [tag |-> "ok"]]
  /\ UNCHANGED <<nextId, callVars, effects, burstCost, lockVars, fnVars, warnVars, notified, ret>>

LedgerNext == LedgerReserve \/ LedgerCommit \/ LedgerRollback \/ LedgerReset

SpecLedger == LedgerInit /\ [][LedgerNext]_vars

(* ------- callers whose actual costs stay within the estimate (SpecCapped) *)

\* commit(id, a) by a caller whose actual cost is at most what it reserved
LedgerCommitWithin ==
  \E id \in Ids, a \in Actuals :
    /\ id \in DOMAIN reservations => a <= reservations[id]
    /\ LedgerCommitOf(id, a)

CappedNext == LedgerReserve \/ LedgerCommitWithin \/ LedgerRollback \/ LedgerReset

SpecCapped == LedgerInit /\ [][CappedNext]_vars

(* ------------- a burst of concurrent reserves (SpecBurst) --------------- *)
(* test_thread_safety: NThreads threads each call check_and_reserve with    *)
(* the same amount on a fresh tracker, and nothing is settled.              *)

BurstInit ==
  /\ \E b \in BurstBudgets : NewTracker(b)
  /\ burstCost \in 1..MaxCost
  /\ nextId = 1
  /\ last = NoCall
  /\ IdleCalls(Threads)
  /\ effects = NoEffects(Threads)

\* try_reserve() of the test: the id is appended to one list, or the
\* BudgetExceededError to the other
BurstReserve(t) ==
  /\ pc[t] = "idle"
  /\ check_and_reserve(burstCost, t)
  /\ IF ReserveResult(burstCost, t).tag = "ok"
       THEN /\ pc' = [pc EXCEPT ![t] = "reserved"]
            /\ rid' = [rid EXCEPT ![t] = ReserveResult(burstCost, t).id]
            /\ UNCHANGED err
       ELSE /\ pc' = [pc EXCEPT ![t] = "raised"]
            /\ err' = [err EXCEPT ![t] = ReserveResult(burstCost, t).tag]
            /\ UNCHANGED rid
  /\ UNCHANGED <<burstCost, lockVars, fnVars, warnVars, notified, ret, nextId, last, on_budget_exceeded, kind, elem, effects>>

BurstNext == \E t \in Threads : BurstReserve(t)

SpecBurst == BurstInit /\ [][BurstNext]_vars

(* ------------------- the wrappers' create() and generators -------------- *)
(* One call of a wrapper's create() per element of Calls.  A step of a call *)
(* runs from one access of the shared ledger, or one hand-over to the       *)
(* transport or to the consumer, to the next.  The money amounts of a call  *)
(* (estimate, cost of the reported usage) are inputs: the estimator and the *)
(* calculator are pure.                                                     *)

\* create() of the OpenAI / Anthropic wrappers without and with stream=True,
\* sync and async, and generate_content_stream() of the Google wrapper
Kinds == {"sync", "async", "stream", "astream", "gstream"}
Streaming(c) == kind[c] \in {"stream", "astream", "gstream"}
\* the Google generator commits after its loop, from the last chunk
CommitsAtEnd(c) == kind[c] = "gstream"
Awaited(c) == kind[c] \in {"async", "astream"}

\* a stream element: an incremental one, or one that carries usage worth
\* `cost` (tokens were produced, so it costs something: the amounts an
\* estimate can take)
NoElem == [usage |-> FALSE, cost |-> 0]
Elems == {NoElem} \cup {[usage |-> TRUE, cost |-> a] : a \in Estimates}

\* the Exception the transport raises
TransportError == "APIError"

\* the locals `spent` and `reserved` of a _check_warnings that is not running
NoSnap == [spent |-> 0, reserved |-> 0]

\* BudgetedSession(warning_thresholds=[80, 30]): the sorted list every wrapper
\* of the session gets
warning_thresholds == <<30, 80>>

\* BudgetedSession.__init__: a fresh ledger, the callbacks, the sorted
\* thresholds and the empty fired set; no call has been made.  obj[c] is the
\* wrapper object the caller will make call c on.
NewSessionOn(b, exceeded_cb, warning_cb, obj) ==
  /\ wrapper = obj
  /\ pricing = NoPricing
  /\ fcall = NoCall
  /\ NewTracker(b)
  /\ nextId = 1
  /\ last = NoCall
  /\ on_budget_exceeded = exceeded_cb
  /\ on_warning = warning_cb
  /\ lock = 0
  /\ thr = [t \in Calls |-> IdleThread]
  /\ fired = {}
  /\ warned = [i \in DOMAIN warning_thresholds |-> 0]
  /\ pc = [c \in Calls |-> "idle"]
  /\ kind = [c \in Calls |-> "none"]
  /\ rid = [c \in Calls |-> 0]
  /\ err = [c \in Calls |-> "none"]
  /\ elem = [c \in Calls |-> NoElem]
  /\ notified = [c \in Calls |-> << >>]
  /\ ret = [c \in Calls |-> "unset"]
  /\ wsnap = [c \in Calls |-> NoSnap]
  /\ widx = [c \in Calls |-> 0]
  /\ threshold_lock = [w \in Calls |-> 0]
  /\ effects = NoEffects(Calls)
  /\ burstCost = 0

\* every call is made through client.chat.completions, a property that builds
\* a new wrapper object on each access
NewSession(b, exceeded_cb, warning_cb) ==
  NewSessionOn(b, exceeded_cb, warning_cb, [c \in Calls |-> c])

\* sessions without a warning callback: _check_warnings returns at once
Init == \E b \in SessionBudgets, x \in BOOLEAN : NewSession(b, x, FALSE)

\* `except BudgetExceededError as e`: the callback and `return None`, or `raise`
\* (fault: the callback is called and the error is raised all the same)
Rejected_NotifiesAndRaises(c, e) ==
  /\ pc' = [pc EXCEPT ![c] = "raised"]
  /\ err' = [err EXCEPT ![c] = e.tag]
  /\ notified' = [notified EXCEPT ![c] = IF on_budget_exceeded THEN Append(@, e) ELSE @]
  /\ UNCHANGED <<rid, kind, ret>>
Rejected(c, e) ==
  /\ pc' = [pc EXCEPT ![c] = IF on_budget_exceeded THEN "returned_none" ELSE "raised"]
  /\ err' = [err EXCEPT ![c] = IF on_budget_exceeded THEN "none" ELSE e.tag]
  /\ notified' = [notified EXCEPT ![c] = IF on_budget_exceeded THEN Append(@, e) ELSE @]
  /\ ret' = [ret EXCEPT ![c] = IF on_budget_exceeded THEN "None" ELSE @]
  /\ UNCHANGED <<rid, kind>>

\* create() up to the transport call: estimate, check_and_reserve, and on
\* success the transport's create() is entered.  The uuid4() of call c is c:
\* a call reserves once, so the ids of different reservations differ.  The
\* calls are numbered in the order in which the ledger's lock lets them into
\* check_and_reserve.
\* (fault: the transport is entered whatever check_and_reserve said)
CreateOf_TransportAnyway(c, K) ==
  \E k \in K, e \in Estimates :
    /\ pc[c] = "idle"
    /\ \A d \in Calls : d < c => pc[d] # "idle"
    /\ check_and_reserve(e, c)
    /\ pc' = [pc EXCEPT ![c] = "in_flight"]
    /\ kind' = [kind EXCEPT ![c] = k]
    /\ rid' = [rid EXCEPT ![c] = IF ReserveResult(e, c).tag = "ok" THEN c ELSE 0]
    /\ UNCHANGED <<err, notified, ret>>
    /\ UNCHANGED <<burstCost, lockVars, fnVars, warnVars, nextId, last, on_budget_exceeded, elem, effects>>
CreateOf(c, K) ==
  \E k \in K, e \in Estimates :
    /\ pc[c] = "idle"
    /\ \A d \in Calls : d < c => pc[d] # "idle"
    /\ check_and_reserve(e, c)
    /\ IF ReserveResult(e, c).tag = "ok"
         THEN /\ pc' = [pc EXCEPT ![c] = "in_flight"]
              /\ kind' = [kind EXCEPT ![c] = k]
              /\ rid' = [rid EXCEPT ![c] = ReserveResult(e, c).id]
              /\ UNCHANGED <<err, notified, ret>>
         ELSE Rejected(c, ReserveResult(e, c))
    /\ UNCHANGED <<burstCost, lockVars, fnVars, warnVars, nextId, last, on_budget_exceeded, elem, effects>>

Create(c) == CreateOf(c, Kinds)

\* the transport's create() raises an Exception (any kind of call): control
\* goes to the except clause of create()
TransportRaises(c) ==
  /\ pc[c] = "in_flight"
  /\ pc' = [pc EXCEPT ![c] = "except"]
  /\ err' = [err EXCEPT ![c] = TransportError]
  /\ UNCHANGED <<ledgerVars, burstCost, lockVars, fnVars, warnVars, notified, ret, nextId, last, on_budget_exceeded, kind, rid, elem, effects>>

\* the response of a non-streaming call whose usage costs `a`
Response(a) == [usage |-> TRUE, cost |-> a]

\* is there anything for _check_warnings to do: `if not self._on_warning or
\* not self._warning_thresholds: return`, `if budget <= 0: return` (the budget
\* never changes, so get_budget() reads a constant)
WarningsOn == on_warning /\ Len(warning_thresholds) > 0 /\ budget > 0

\* non-streaming: the transport returns a response whose usage costs `a`;
\* commit, then _check_warnings (which returns at once when there is no
\* warning callback) and `return response`; a ValueError of commit goes to
\* the except clause
\* (fault: the estimate is committed, not the cost of the reported usage)
TransportReturns_CommitsEstimate(c) ==
  \E a \in Usages :
    /\ pc[c] = "in_flight"
    /\ ~Streaming(c)
    /\ rid[c] \in DOMAIN reservations
    /\ commit(rid[c], reservations[rid[c]])
    /\ Settles(rid[c], "commit")
    /\ pc' = [pc EXCEPT ![c] = IF WarningsOn THEN "cw_get_spent" ELSE "returned"]
    /\ ret' = [ret EXCEPT ![c] = IF WarningsOn THEN @ ELSE "response"]
    /\ elem' = [elem EXCEPT ![c] = IF WarningsOn THEN Response(a) ELSE @]
    /\ UNCHANGED <<burstCost, lockVars, fnVars, warnVars, notified, nextId, last, on_budget_exceeded, kind, rid, err>>
TransportReturns(c) ==
  \E a \in Usages :
    /\ pc[c] = "in_flight"
    /\ ~Streaming(c)
    /\ commit(rid[c], a)
    /\ Settles(rid[c], "commit")
    /\ IF CommitResult(rid[c]).tag = "ok"
         THEN /\ pc' = [pc EXCEPT ![c] = IF WarningsOn THEN "cw_get_spent" ELSE "returned"]
              /\ ret' = [ret EXCEPT ![c] = IF WarningsOn THEN @ ELSE "response"]
              /\ elem' = [elem EXCEPT ![c] = IF WarningsOn THEN Response(a) ELSE @]
              /\ UNCHANGED err
         ELSE /\ pc' = [pc EXCEPT ![c] = "except"]
              /\ err' = [err EXCEPT ![c] = "ValueError"]
              /\ UNCHANGED <<ret, elem>>
    /\ UNCHANGED <<burstCost, lockVars, fnVars, warnVars, notified, nextId, last, on_budget_exceeded, kind, rid>>

\* `except Exception: self._tracker.rollback(reservation_id); raise`
\* (fault: the handler re-raises without the rollback)
ExceptHandler_NoRollback(c) ==
  /\ pc[c] = "except"
  /\ pc' = [pc EXCEPT ![c] = "raised"]
  /\ UNCHANGED <<ledgerVars, burstCost, lockVars, fnVars, warnVars, notified, ret, nextId, last, on_budget_exceeded, kind, rid, err, elem, effects>>
\* (fault: the handler rolls back and returns the response without re-raising)
ExceptHandler_Swallows(c) ==
  /\ pc[c] = "except"
  /\ rollback(rid[c])
  /\ Settles(rid[c], "rollback")
  /\ pc' = [pc EXCEPT ![c] = "returned"]
  /\ ret' = [ret EXCEPT ![c] = "response"]
  /\ UNCHANGED <<burstCost, lockVars, fnVars, warnVars, notified, nextId, last, on_budget_exceeded, kind, rid, err, elem>>
ExceptHandler(c) ==
  /\ pc[c] = "except"
  /\ rollback(rid[c])
  /\ Settles(rid[c], "rollback")
  /\ pc' = [pc EXCEPT ![c] = "raised"]
  /\ UNCHANGED <<burstCost, lockVars, fnVars, warnVars, notified, ret, nextId, last, on_budget_exceeded, kind, rid, err, elem>>

\* an awaited create() is cancelled while the transport call is in flight:
\* CancelledError is a BaseException, which `except Exception` does not catch
Cancel(c) ==
  /\ pc[c] = "in_flight"
  /\ Awaited(c)
  /\ pc' = [pc EXCEPT ![c] = "cancelled"]
  /\ err' = [err EXCEPT ![c] = "CancelledError"]
  /\ UNCHANGED <<ledgerVars, burstCost, lockVars, fnVars, warnVars, notified, ret, nextId, last, on_budget_exceeded, kind, rid, elem, effects>>

\* streaming: the transport returns the raw stream and create() returns the
\* generator object; no line of the generator's body has run yet.  The sync
\* and the async generator of OpenAI / Anthropic have the same body: from here
\* on their kind is "stream".
StreamOpens(c) ==
  /\ pc[c] = "in_flight"
  /\ Streaming(c)
  /\ pc' = [pc EXCEPT ![c] = "gen_created"]
  /\ kind' = [kind EXCEPT ![c] = IF CommitsAtEnd(c) THEN "gstream" ELSE "stream"]
  /\ ret' = [ret EXCEPT ![c] = "generator"]
  /\ UNCHANGED <<ledgerVars, burstCost, lockVars, fnVars, warnVars, notified, nextId, last, on_budget_exceeded, rid, err, elem, effects>>

\* the consumer drops or closes the generator before the first next(): the
\* body, and with it the finally clause, never runs
GenDiscard(c) ==
  /\ pc[c] = "gen_created"
  /\ pc' = [pc EXCEPT ![c] = "discarded"]
  /\ UNCHANGED <<ledgerVars, burstCost, lockVars, fnVars, warnVars, notified, ret, nextId, last, on_budget_exceeded, kind, rid, err, elem, effects>>

\* the generator is suspended on an element that carries usage: the code after
\* the yield commits when the generator is resumed
PendingCommit(c) == pc[c] = "gen_suspended" /\ elem[c].usage /\ ~CommitsAtEnd(c)

\* the code after the yield, run when the consumer resumes the generator
AfterYield(c) ==
  IF PendingCommit(c)
    THEN commit(rid[c], elem[c].cost) /\ Settles(rid[c], "commit")
    ELSE UNCHANGED <<ledgerVars, effects>>

\* the code after the yield followed by `finally: rollback(reservation_id)`:
\* after a commit the rollback finds nothing
\* (fault: the code after the yield is skipped)
AfterYieldThenFinally_NoCommit(c) ==
  rollback(rid[c]) /\ Settles(rid[c], "rollback")
AfterYieldThenFinally(c) ==
  IF PendingCommit(c)
    THEN commit(rid[c], elem[c].cost) /\ Settles(rid[c], "commit")
    ELSE rollback(rid[c]) /\ Settles(rid[c], "rollback")

\* next(): the commit after the yield raises ValueError (the reservation is no
\* longer there); finally: rollback finds nothing; the consumer gets the error
GenCommitFails(c) ==
  /\ PendingCommit(c)
  /\ CommitResult(rid[c]).tag = "ValueError"
  /\ pc' = [pc EXCEPT ![c] = "gen_raised"]
  /\ err' = [err EXCEPT ![c] = "ValueError"]
  /\ elem' = [elem EXCEPT ![c] = NoElem]
  /\ UNCHANGED <<ledgerVars, burstCost, lockVars, fnVars, warnVars, notified, ret, nextId, last, on_budget_exceeded, kind, rid, effects>>

\* the Google generator, when its loop has ended: `if last_chunk is not None:
\* commit(calculate_cost(last_chunk))`, then `finally: rollback`
LoopEndThenFinally(c) ==
  IF pc[c] = "gen_suspended"
    THEN commit(rid[c], elem[c].cost) /\ Settles(rid[c], "commit")
    ELSE rollback(rid[c]) /\ Settles(rid[c], "rollback")

\* next(): the raw stream produces an element, which is yielded (every chunk
\* of a Gemini stream carries usage_metadata)
GenYields(c) ==
  \E x \in Elems :
    /\ pc[c] \in {"gen_created", "gen_suspended"}
    /\ CommitsAtEnd(c) => x.usage
    /\ PendingCommit(c) => CommitResult(rid[c]).tag = "ok"
    /\ AfterYield(c)
    /\ pc' = [pc EXCEPT ![c] = "gen_suspended"]
    /\ elem' = [elem EXCEPT ![c] = x]
    /\ UNCHANGED <<burstCost, lockVars, fnVars, warnVars, notified, ret, nextId, last, on_budget_exceeded, kind, rid, err>>

\* next(): the raw stream raises; finally: rollback; the consumer gets the error
\* (fault: no finally clause)
GenTransportRaises_NoFinally(c) ==
  /\ pc[c] \in {"gen_created", "gen_suspended"}
  /\ PendingCommit(c) => CommitResult(rid[c]).tag = "ok"
  /\ AfterYield(c)
  /\ pc' = [pc EXCEPT ![c] = "gen_raised"]
  /\ err' = [err EXCEPT ![c] = TransportError]
  /\ elem' = [elem EXCEPT ![c] = NoElem]
  /\ UNCHANGED <<burstCost, lockVars, fnVars, warnVars, notified, ret, nextId, last, on_budget_exceeded, kind, rid>>
GenTransportRaises(c) ==
  /\ pc[c] \in {"gen_created", "gen_suspended"}
  /\ PendingCommit(c) => CommitResult(rid[c]).tag = "ok"
  /\ AfterYieldThenFinally(c)
  /\ pc' = [pc EXCEPT ![c] = "gen_raised"]
  /\ err' = [err EXCEPT ![c] = TransportError]
  /\ elem' = [elem EXCEPT ![c] = NoElem]
  /\ UNCHANGED <<burstCost, lockVars, fnVars, warnVars, notified, ret, nextId, last, on_budget_exceeded, kind, rid>>

\* next(): the raw stream is exhausted; finally: rollback; StopIteration
\* (fault: no finally clause)
GenEnds_NoFinally(c) ==
  /\ pc[c] \in {"gen_created", "gen_suspended"}
  /\ PendingCommit(c) => CommitResult(rid[c]).tag = "ok"
  /\ IF CommitsAtEnd(c) /\ pc[c] = "gen_suspended"
       THEN commit(rid[c], elem[c].cost) /\ Settles(rid[c], "commit")
       ELSE AfterYield(c)
  /\ pc' = [pc EXCEPT ![c] = "exhausted"]
  /\ elem' = [elem EXCEPT ![c] = NoElem]
  /\ UNCHANGED <<burstCost, lockVars, fnVars, warnVars, notified, ret, nextId, last, on_budget_exceeded, kind, rid, err>>
GenEnds(c) ==
  /\ pc[c] \in {"gen_created", "gen_suspended"}
  /\ PendingCommit(c) => CommitResult(rid[c]).tag = "ok"
  /\ IF CommitsAtEnd(c) THEN LoopEndThenFinally(c) ELSE AfterYieldThenFinally(c)
  /\ pc' = [pc EXCEPT ![c] = "exhausted"]
  /\ elem' = [elem EXCEPT ![c] = NoElem]
  /\ UNCHANGED <<burstCost, lockVars, fnVars, warnVars, notified, ret, nextId, last, on_budget_exceeded, kind, rid, err>>

\* close(), break or cancellation while the generator is suspended at the
\* yield: GeneratorExit (CancelledError) is raised at the yield, the code
\* after it is skipped, finally: rollback
\* (fault: no finally clause)
GenClose_NoFinally(c) ==
  /\ pc[c] = "gen_suspended"
  /\ pc' = [pc EXCEPT ![c] = "closed"]
  /\ elem' = [elem EXCEPT ![c] = NoElem]
  /\ UNCHANGED <<ledgerVars, effects, burstCost, lockVars, fnVars, warnVars, notified, ret, nextId, last, on_budget_exceeded, kind, rid, err>>
GenClose(c) ==
  /\ pc[c] = "gen_suspended"
  /\ rollback(rid[c])
  /\ Settles(rid[c], "rollback")
  /\ pc' = [pc EXCEPT ![c] = "closed"]
  /\ elem' = [elem EXCEPT ![c] = NoElem]
  /\ UNCHANGED <<burstCost, lockVars, fnVars, warnVars, notified, ret, nextId, last, on_budget_exceeded, kind, rid, err>>

Next ==
  \E c \in Calls :
    \/ Create(c)
    \/ TransportRaises(c)
    \/ TransportReturns(c)
    \/ ExceptHandler(c)
    \/ Cancel(c)
    \/ StreamOpens(c)
    \/ GenDiscard(c)
    \/ GenCommitFails(c)
    \/ GenYields(c)
    \/ GenTransportRaises(c)
    \/ GenEnds(c)
    \/ GenClose(c)

Spec == Init /\ [][Next]_vars

(* --------------------- _check_warnings (SpecWarn) ------------------------ *)
(* Sessions with a warning callback: sync non-streaming calls made from      *)
(* several threads.  _check_warnings runs after the commit, outside the      *)
(* ledger's lock: get_budget, get_spent and get_reserved each take that lock *)
(* on their own, then the loop over the thresholds runs under the            *)
(* _threshold_lock of the wrapper object create() was called on.  Every      *)
(* access to client.chat.completions, client.messages or client.models is a  *)
(* property that builds a new wrapper object, with a lock of its own around  *)
(* the one fired set of the session.                                         *)

WarnInit == \E b \in SessionBudgets : NewSession(b, FALSE, TRUE)

\* `spent = self._tracker.get_spent()`
\* (fault: the local also counts what is reserved at that moment)
GetSpent_CountsReserved(c) ==
  /\ pc[c] = "cw_get_spent"
  /\ wsnap' = [wsnap EXCEPT ![c].spent = spent + reserved]
  /\ pc' = [pc EXCEPT ![c] = "cw_get_reserved"]
  /\ elem' = [elem EXCEPT ![c] = NoElem]
  /\ UNCHANGED <<ledgerVars, burstCost, lockVars, fnVars, on_warning, fired, warned, widx, threshold_lock,
                 notified, ret, nextId, last, on_budget_exceeded, kind, rid, err, effects>>
GetSpent(c) ==
  /\ pc[c] = "cw_get_spent"
  /\ wsnap' = [wsnap EXCEPT ![c].spent = spent]
  /\ pc' = [pc EXCEPT ![c] = "cw_get_reserved"]
  /\ elem' = [elem EXCEPT ![c] = NoElem]
  /\ UNCHANGED <<ledgerVars, burstCost, lockVars, fnVars, on_warning, fired, warned, widx, threshold_lock,
                 notified, ret, nextId, last, on_budget_exceeded, kind, rid, err, effects>>

\* `reserved = self._tracker.get_reserved()`
GetReserved(c) ==
  /\ pc[c] = "cw_get_reserved"
  /\ wsnap' = [wsnap EXCEPT ![c].reserved = reserved]
  /\ pc' = [pc EXCEPT ![c] = "cw_lock"]
  /\ UNCHANGED <<ledgerVars, burstCost, lockVars, fnVars, on_warning, fired, warned, widx, threshold_lock,
                 notified, ret, nextId, last, on_budget_exceeded, kind, rid, err, elem, effects>>

\* `with self._threshold_lock:` of the wrapper object w the call was made on;
\* the calls so far were made on at most as many objects as there are calls
AcquireThresholdLock(c) ==
  \E w \in 1..c :
    /\ pc[c] = "cw_lock"
    /\ threshold_lock[w] = 0
    /\ threshold_lock' = [threshold_lock EXCEPT ![w] = c]
    /\ widx' = [widx EXCEPT ![c] = 1]
    /\ pc' = [pc EXCEPT ![c] = "cw_loop"]
    /\ UNCHANGED <<ledgerVars, burstCost, lockVars, fnVars, on_warning, fired, warned, wsnap,
                   notified, ret, nextId, last, on_budget_exceeded, kind, rid, err, elem, effects>>

\* `utilization >= threshold`, on the locals: utilization is
\* (spent + reserved) / budget * 100 and budget > 0
Crossed(c, th) == (wsnap[c].spent + wsnap[c].reserved) * 100 >= th * budget

\* the dict on_warning is called with
Payload(c, th) ==
  [threshold |-> th, spent |-> wsnap[c].spent,
   remaining |-> budget - wsnap[c].spent - wsnap[c].reserved, budget |-> budget]

\* one turn of `for threshold in self._warning_thresholds` that gets to the
\* shared set: utilization >= threshold holds on the locals, and
\* `threshold not in self._fired_thresholds` is evaluated
LoopTest(c) ==
  /\ pc[c] = "cw_loop"
  /\ widx[c] <= Len(warning_thresholds)
  /\ Crossed(c, warning_thresholds[widx[c]])
  /\ IF warning_thresholds[widx[c]] \notin fired
       THEN /\ pc' = [pc EXCEPT ![c] = "cw_fire"]
            /\ UNCHANGED widx
       ELSE /\ widx' = [widx EXCEPT ![c] = @ + 1]
            /\ UNCHANGED pc
  /\ UNCHANGED <<ledgerVars, burstCost, lockVars, fnVars, on_warning, fired, warned, wsnap, threshold_lock,
                 notified, ret, nextId, last, on_budget_exceeded, kind, rid, err, elem, effects>>

\* the body of the if: `self._fired_thresholds.add(threshold)` and the call
\* of on_warning with Payload(c, threshold)
\* (fault: the threshold is not added to the set)
Fire_ForgetsThreshold(c) ==
  /\ pc[c] = "cw_fire"
  /\ warned' = [warned EXCEPT ![widx[c]] = @ + 1]
  /\ widx' = [widx EXCEPT ![c] = @ + 1]
  /\ pc' = [pc EXCEPT ![c] = "cw_loop"]
  /\ UNCHANGED <<ledgerVars, burstCost, lockVars, fnVars, on_warning, fired, wsnap, threshold_lock,
                 notified, ret, nextId, last, on_budget_exceeded, kind, rid, err, elem, effects>>
Fire(c) ==
  /\ pc[c] = "cw_fire"
  /\ fired' = fired \cup {warning_thresholds[widx[c]]}
  /\ warned' = [warned EXCEPT ![widx[c]] = @ + 1]
  /\ widx' = [widx EXCEPT ![c] = @ + 1]
  /\ pc' = [pc EXCEPT ![c] = "cw_loop"]
  /\ UNCHANGED <<ledgerVars, burstCost, lockVars, fnVars, on_warning, wsnap, threshold_lock,
                 notified, ret, nextId, last, on_budget_exceeded, kind, rid, err, elem, effects>>

\* the rest of the loop: the list is sorted, so once utilization >= threshold
\* fails on the locals it fails for every later threshold, and the shared set
\* is not looked at again; the lock is released, _check_warnings returns and
\* create() returns the response
\* (fault: the loop may be left before the list is exhausted)
CheckWarningsReturns_Early(c) ==
  /\ pc[c] = "cw_loop"
  /\ threshold_lock' = [w \in DOMAIN threshold_lock |->
                          IF threshold_lock[w] = c THEN 0 ELSE threshold_lock[w]]
  /\ widx' = [widx EXCEPT ![c] = 0]
  /\ wsnap' = [wsnap EXCEPT ![c] = NoSnap]
  /\ pc' = [pc EXCEPT ![c] = "returned"]
  /\ ret' = [ret EXCEPT ![c] = "response"]
  /\ UNCHANGED <<ledgerVars, burstCost, lockVars, fnVars, on_warning, fired, warned,
                 notified, nextId, last, on_budget_exceeded, kind, rid, err, elem, effects>>
CheckWarningsReturns(c) ==
  /\ pc[c] = "cw_loop"
  /\ widx[c] <= Len(warning_thresholds) => ~Crossed(c, warning_thresholds[widx[c]])
  /\ threshold_lock' = [w \in DOMAIN threshold_lock |->
                          IF threshold_lock[w] = c THEN 0 ELSE threshold_lock[w]]
  /\ widx' = [widx EXCEPT ![c] = 0]
  /\ wsnap' = [wsnap EXCEPT ![c] = NoSnap]
  /\ pc' = [pc EXCEPT ![c] = "returned"]
  /\ ret' = [ret EXCEPT ![c] = "response"]
  /\ UNCHANGED <<ledgerVars, burstCost, lockVars, fnVars, on_warning, fired, warned,
                 notified, nextId, last, on_budget_exceeded, kind, rid, err, elem, effects>>

\* the steps of one call of a session with a warning callback
WarnStep(c) ==
  \/ CreateOf(c, {"sync"})
  \/ TransportRaises(c)
  \/ TransportReturns(c)
  \/ ExceptHandler(c)
  \/ GetSpent(c)
  \/ GetReserved(c)
  \/ AcquireThresholdLock(c)
  \/ LoopTest(c)
  \/ Fire(c)
  \/ CheckWarningsReturns(c)

WarnNext == \E c \in Calls : WarnStep(c)

SpecWarn == WarnInit /\ [][WarnNext]_vars

(* ------------- one caller, one call after the other (SpecSeq) ----------- *)
(* test_on_warning_callback: the calls of a session are made one after the  *)
(* other, each one returning or raising before the next one starts.         *)

Quiet(c) == pc[c] \in {"idle", "returned", "raised", "returned_none"}

SeqNext ==
  \E c \in Calls :
    /\ \A d \in Calls \ {c} : Quiet(d)
    /\ WarnStep(c)

SpecSeq == WarnInit /\ [][SeqNext]_vars

(* ------ plain calls whose callers keep the response (SpecSync) ---------- *)
(* Concurrent non-streaming synchronous calls of a session without a        *)
(* warning callback; elem[c] keeps the response create() returned, as the   *)
(* caller does.                                                             *)

\* the transport returns a response whose usage costs `a`: commit,
\* _check_warnings (which returns at once) and `return response`; a
\* ValueError of commit goes to the except clause
\* (fault: the reserved amount is recorded as the spend)
SyncReturns_SpendsReserved(c) ==
  \E a \in Usages :
    /\ pc[c] = "in_flight"
    /\ commit_SpendsEstimate(rid[c], a)
    /\ Settles(rid[c], "commit")
    /\ pc' = [pc EXCEPT ![c] = "returned"]
    /\ ret' = [ret EXCEPT ![c] = "response"]
    /\ elem' = [elem EXCEPT ![c] = Response(a)]
    /\ UNCHANGED <<burstCost, lockVars, fnVars, warnVars, notified, nextId, last, on_budget_exceeded,
                   kind, rid, err>>
SyncReturns(c) ==
  \E a \in Usages :
    /\ pc[c] = "in_flight"
    /\ commit(rid[c], a)
    /\ Settles(rid[c], "commit")
    /\ IF CommitResult(rid[c]).tag = "ok"
         THEN /\ pc' = [pc EXCEPT ![c] = "returned"]
              /\ ret' = [ret EXCEPT ![c] = "response"]
              /\ elem' = [elem EXCEPT ![c] = Response(a)]
              /\ UNCHANGED err
         ELSE /\ pc' = [pc EXCEPT ![c] = "except"]
              /\ err' = [err EXCEPT ![c] = "ValueError"]
              /\ UNCHANGED <<ret, elem>>
    /\ UNCHANGED <<burstCost, lockVars, fnVars, warnVars, notified, nextId, last, on_budget_exceeded,
                   kind, rid>>

SyncNext ==
  \E c \in Calls :
    \/ CreateOf(c, {"sync"})
    \/ TransportRaises(c)
    \/ SyncReturns(c)
    \/ ExceptHandler(c)

SpecSync == Init /\ [][SyncNext]_vars

(* ------------- construction of the tracker (SpecCtor) ------------------- *)

\* the budgets a caller may pass, negative ones included
CtorBudgets == (0 - MaxCost)..MaxBudget

\* SpendTracker(budget_usd): the object __init__ leaves, or what it raises
\* (fault: the sign of the budget is not tested)
SpendTracker_Unchecked(b) ==
  [tag |-> "ok", budget |-> b, spent |-> 0, reserved |-> 0, reservations |-> EmptyMap]
SpendTracker(b) ==
  IF b < 0
    THEN [tag |-> "ValueError"]
    ELSE [tag |-> "ok", budget |-> b, spent |-> 0, reserved |-> 0, reservations |-> EmptyMap]

\* before the constructor is called there is no tracker: the ledger variables
\* stand for nothing until a constructor call has returned an object
CtorInit ==
  /\ NewTracker(0)
  /\ nextId = 1
  /\ last = NoCall
  /\ IdleCalls(Calls)
  /\ effects = NoEffects(Ids)
  /\ burstCost = 0

\* is there a tracker object
Constructed ==
  /\ last.op # "none"
  /\ ~(last.op = "__init__" /\ last.result.tag = "ValueError")

\* tracker = SpendTracker(b)
Construct ==
  \E b \in CtorBudgets :
    LET t == SpendTracker(b) IN
    /\ last = NoCall
    /\ last' = [op |-> "__init__", arg |-> b, result |-> [tag |-> t.tag]]
    /\ IF t.tag = "ok"
         THEN /\ budget' = t.budget
              /\ spent' = t.spent
              /\ reserved' = t.reserved
              /\ reservations' = t.reservations
         ELSE UNCHANGED ledgerVars
    /\ UNCHANGED <<nextId, callVars, effects, burstCost, lockVars, fnVars, warnVars, notified, ret>>

\* the calls that need the object
CtorNext == Construct \/ (Constructed /\ LedgerNext)

SpecCtor == CtorInit /\ [][CtorNext]_vars

(* ------------ the tracker's lock, step by step (SpecLock) --------------- *)
(* Threads of one session, each making one call: create() on a wrapper      *)
(* (plain or streaming), session.get_summary() or session.reset(). Every    *)
(* tracker method is entered by acquiring SpendTracker._lock and left by    *)
(* releasing it; what a method reads on entry is kept in the local `loc`    *)
(* and its writes are made from that local when it leaves. SpecLock has     *)
(* sessions without a warning callback; SpecCallback has sessions with both *)
(* callbacks whose threads make plain calls, and takes the warning loop     *)
(* under _threshold_lock as one step (SpecWarn has its turns).              *)

\* `with self._lock:` entered by thread t: threading.Lock blocks while held
\* (fault: the lock is taken without waiting for it)
Acquire_NoWait(t) == lock' = t
Acquire(t) == lock = 0 /\ lock' = t

\* the with block is left, by return or by an exception
Release == lock' = 0

\* `x not in self._reservations`, as the value of a local
Missing == 0 - 1

Lookup(id) == IF id \in DOMAIN reservations THEN reservations[id] ELSE Missing

lockFrame == <<nextId, last, callVars, effects, burstCost, on_warning, warned, wsnap, widx,
               notified, ret, wrapper, fnVars>>

LockInit == \E b \in SessionBudgets, x \in BOOLEAN : NewSession(b, x, FALSE)

\* create(): estimate e, then check_and_reserve(e) up to the read of `remaining`
ThrReserveEnter(t) ==
  \E e \in Estimates :
    /\ thr[t].pc = "idle"
    /\ Acquire(t)
    /\ thr' = [thr EXCEPT ![t] = [@ EXCEPT !.pc = "res_body", !.op = "create",
                                            !.e = e, !.loc = budget - spent - reserved]]
    /\ UNCHANGED <<ledgerVars, fired, threshold_lock, lockFrame>>

\* the rest of check_and_reserve: raise BudgetExceededError, or reserve under
\* a new id and return it; either way the with block is left
\* (fault: the exception leaves the lock held)
ThrReserveExit_RaisesLocked(t) ==
  /\ thr[t].pc = "res_body"
  /\ IF thr[t].e > thr[t].loc
       THEN /\ thr' = [thr EXCEPT ![t] = [@ EXCEPT !.pc = "except_budget", !.e = 0, !.loc = 0]]
            /\ UNCHANGED <<ledgerVars, lock>>
       ELSE /\ reserved' = reserved + thr[t].e
            /\ reservations' = (t :> thr[t].e) @@ reservations
            /\ UNCHANGED <<budget, spent>>
            /\ Release
            /\ thr' = [thr EXCEPT ![t] = [@ EXCEPT !.pc = "in_flight", !.id = t, !.e = 0, !.loc = 0]]
  /\ UNCHANGED <<fired, threshold_lock, lockFrame>>
\* (fault: the return leaves the lock held)
ThrReserveExit_ReturnsLocked(t) ==
  /\ thr[t].pc = "res_body"
  /\ IF thr[t].e > thr[t].loc
       THEN /\ thr' = [thr EXCEPT ![t] = [@ EXCEPT !.pc = "except_budget", !.e = 0, !.loc = 0]]
            /\ Release
            /\ UNCHANGED ledgerVars
       ELSE /\ reserved' = reserved + thr[t].e
            /\ reservations' = (t :> thr[t].e) @@ reservations
            /\ UNCHANGED <<budget, spent, lock>>
            /\ thr' = [thr EXCEPT ![t] = [@ EXCEPT !.pc = "in_flight", !.id = t, !.e = 0, !.loc = 0]]
  /\ UNCHANGED <<fired, threshold_lock, lockFrame>>
ThrReserveExit(t) ==
  /\ thr[t].pc = "res_body"
  /\ IF thr[t].e > thr[t].loc
       THEN /\ thr' = [thr EXCEPT ![t] = [@ EXCEPT !.pc = "except_budget", !.e = 0, !.loc = 0]]
            /\ Release
            /\ UNCHANGED ledgerVars
       ELSE /\ reserved' = reserved + thr[t].e
            /\ reservations' = (t :> thr[t].e) @@ reservations
            /\ UNCHANGED <<budget, spent>>
            /\ Release
            /\ thr' = [thr EXCEPT ![t] = [@ EXCEPT !.pc = "in_flight", !.id = t, !.e = 0, !.loc = 0]]
  /\ UNCHANGED <<fired, threshold_lock, lockFrame>>

\* how a callback found the tracker's lock when it was called
LockSeenBy(t) == IF lock = t THEN "held" ELSE "free"

\* `except BudgetExceededError as e:` of create(): the callback and
\* `return None`, or `raise`
ThrExceptBudget(t) ==
  /\ thr[t].pc = "except_budget"
  /\ thr' = [thr EXCEPT ![t] =
               [@ EXCEPT !.pc = "done",
                         !.out = IF on_budget_exceeded THEN "None" ELSE "BudgetExceededError",
                         !.cb = IF on_budget_exceeded THEN LockSeenBy(t) ELSE "none"]]
  /\ UNCHANGED <<ledgerVars, lock, fired, threshold_lock, lockFrame>>

\* the transport call raises: `except Exception:` goes on to rollback
ThrTransportRaises(t) ==
  /\ thr[t].pc = "in_flight"
  /\ thr' = [thr EXCEPT ![t] = [@ EXCEPT !.pc = "rb_lock", !.out = TransportError]]
  /\ UNCHANGED <<ledgerVars, lock, fired, threshold_lock, lockFrame>>

\* the transport call returns: a response (create() goes on to commit), or,
\* with stream=True, a raw stream whose element with the usage the generator
\* hands to the consumer
ThrTransportReturnsOf(t, S) ==
  \E s \in S :
    /\ thr[t].pc = "in_flight"
    /\ thr' = [thr EXCEPT ![t] = [@ EXCEPT !.pc = IF s THEN "with_consumer" ELSE "com_lock",
                                            !.stream = s]]
    /\ UNCHANGED <<ledgerVars, lock, fired, threshold_lock, lockFrame>>

ThrTransportReturns(t) == ThrTransportReturnsOf(t, BOOLEAN)

\* the consumer asks for the next element: the generator goes on after `yield`
ThrResume(t) ==
  /\ thr[t].pc = "with_consumer"
  /\ thr' = [thr EXCEPT ![t] = [@ EXCEPT !.pc = "com_lock"]]
  /\ UNCHANGED <<ledgerVars, lock, fired, threshold_lock, lockFrame>>

\* the consumer closes the generator instead: `finally:` goes on to rollback
ThrClose(t) ==
  /\ thr[t].pc = "with_consumer"
  /\ thr' = [thr EXCEPT ![t] = [@ EXCEPT !.pc = "rb_lock"]]
  /\ UNCHANGED <<ledgerVars, lock, fired, threshold_lock, lockFrame>>

\* commit(id, a) up to the test `reservation_id not in self._reservations`
ThrCommitEnter(t) ==
  /\ thr[t].pc = "com_lock"
  /\ Acquire(t)
  /\ thr' = [thr EXCEPT ![t] = [@ EXCEPT !.pc = "com_body", !.loc = Lookup(thr[t].id)]]
  /\ UNCHANGED <<ledgerVars, fired, threshold_lock, lockFrame>>

\* where create() or the generator goes when _check_warnings is over or
\* returns at once: `return response`, or the generator's `finally:`
AfterWarnings(t) == IF thr[t].stream THEN "rb_lock" ELSE "done"

\* the rest of commit: raise ValueError (create() and the generator go on
\* to rollback), or pop the entry and move the amounts, a being the cost of
\* the usage the response or the element reported; then _check_warnings up
\* to its first tracker call
ThrCommitExit(t) ==
  /\ thr[t].pc = "com_body"
  /\ Release
  /\ IF thr[t].loc = Missing
       THEN /\ UNCHANGED ledgerVars
            /\ thr' = [thr EXCEPT ![t] = [@ EXCEPT !.pc = "rb_lock", !.out = "ValueError",
                                                    !.loc = 0]]
       ELSE \E a \in Usages :
            /\ reservations' = Pop(thr[t].id)
            /\ reserved' = reserved - thr[t].loc
            /\ spent' = spent + a
            /\ UNCHANGED budget
            /\ thr' = [thr EXCEPT ![t] =
                         [@ EXCEPT !.pc = IF on_warning /\ Len(warning_thresholds) > 0
                                            THEN "get_lock" ELSE AfterWarnings(t),
                                   !.get = IF on_warning /\ Len(warning_thresholds) > 0
                                             THEN "budget" ELSE "none",
                                   !.out = "response", !.loc = 0]]
  /\ UNCHANGED <<fired, threshold_lock, lockFrame>>

\* rollback(id) up to the test `reservation_id in self._reservations`
ThrRollbackEnter(t) ==
  /\ thr[t].pc = "rb_lock"
  /\ Acquire(t)
  /\ thr' = [thr EXCEPT ![t] = [@ EXCEPT !.pc = "rb_body", !.loc = Lookup(thr[t].id)]]
  /\ UNCHANGED <<ledgerVars, fired, threshold_lock, lockFrame>>

\* the rest of rollback; the error, if there was one, goes on to the caller
ThrRollbackExit(t) ==
  /\ thr[t].pc = "rb_body"
  /\ Release
  /\ IF thr[t].loc = Missing
       THEN UNCHANGED ledgerVars
       ELSE /\ reservations' = Pop(thr[t].id)
            /\ reserved' = reserved - thr[t].loc
            /\ UNCHANGED <<budget, spent>>
  /\ thr' = [thr EXCEPT ![t] = [@ EXCEPT !.pc = "done", !.loc = 0,
                                          !.out = IF @ = "none" THEN "closed" ELSE @]]
  /\ UNCHANGED <<fired, threshold_lock, lockFrame>>

\* what the getter named g returns
Field(g) ==
  CASE g = "budget" -> budget
    [] g = "spent" -> spent
    [] g = "reserved" -> reserved
    [] g = "remaining" -> budget - spent - reserved

\* session.get_summary(): its first call, get_budget(), up to the read
ThrSummaryEnter(t) ==
  /\ thr[t].pc = "idle"
  /\ Acquire(t)
  /\ thr' = [thr EXCEPT ![t] = [@ EXCEPT !.pc = "get_body", !.op = "get_summary",
                                          !.get = "budget", !.loc = Field("budget")]]
  /\ UNCHANGED <<ledgerVars, fired, threshold_lock, lockFrame>>

\* get_budget / get_spent / get_reserved / get_remaining up to the read
ThrGetEnter(t) ==
  /\ thr[t].pc = "get_lock"
  /\ Acquire(t)
  /\ thr' = [thr EXCEPT ![t] = [@ EXCEPT !.pc = "get_body", !.loc = Field(thr[t].get)]]
  /\ UNCHANGED <<ledgerVars, fired, threshold_lock, lockFrame>>

\* the getter that follows getter g in get_summary and in _check_warnings
NextGet(t) ==
  CASE thr[t].get = "budget" -> "spent"
    [] thr[t].get = "spent" -> "reserved"
    [] thr[t].get = "reserved" -> IF thr[t].op = "get_summary" THEN "remaining" ELSE "none"
    [] thr[t].get = "remaining" -> "none"

\* `utilization = ((spent + reserved) / budget * 100) if budget > 0 else 0.0`,
\* in whole percent
Utilization(m) ==
  IF m.budget > 0 THEN ((m.spent + m.reserved) * 100) \div m.budget ELSE 0

\* the getter returns what it read to its caller, which keeps it in a local
\* and goes on: get_summary to its next getter or to the dict it returns,
\* _check_warnings to `if budget <= 0: return`, to its next getter or to
\* `with self._threshold_lock`
ThrGetExit(t) ==
  LET m == [thr[t].sum EXCEPT ![thr[t].get] = thr[t].loc]
      over == thr[t].op = "create" /\ thr[t].get = "budget" /\ thr[t].loc <= 0
  IN
  /\ thr[t].pc = "get_body"
  /\ Release
  /\ thr' = [thr EXCEPT ![t] =
       [@ EXCEPT !.loc = 0,
                 !.get = IF over THEN "none" ELSE NextGet(t),
                 !.sum = IF over THEN NoSummary
                         ELSE IF thr[t].op = "get_summary" /\ NextGet(t) = "none"
                                THEN [m EXCEPT !.utilization_percent = Utilization(m)]
                                ELSE m,
                 !.out = IF thr[t].op = "get_summary" /\ NextGet(t) = "none"
                           THEN "summary" ELSE @,
                 !.pc = IF over THEN AfterWarnings(t)
                        ELSE IF NextGet(t) # "none" THEN "get_lock"
                        ELSE IF thr[t].op = "get_summary" THEN "done" ELSE "tl_lock"]]
  /\ UNCHANGED <<ledgerVars, fired, threshold_lock, lockFrame>>

\* `with self._threshold_lock:` of the wrapper object w the call was made on
ThrWarnEnter(t) ==
  \E w \in 1..t :
    /\ thr[t].pc = "tl_lock"
    /\ threshold_lock[w] = 0
    /\ threshold_lock' = [threshold_lock EXCEPT ![w] = t]
    /\ thr' = [thr EXCEPT ![t] = [@ EXCEPT !.pc = "warn_loop"]]
    /\ UNCHANGED <<ledgerVars, lock, fired, lockFrame>>

\* the thresholds the loop of _check_warnings fires on the locals in m
Due(m) ==
  {warning_thresholds[i] : i \in {j \in DOMAIN warning_thresholds :
       /\ (m.spent + m.reserved) * 100 >= warning_thresholds[j] * m.budget
       /\ warning_thresholds[j] \notin fired}}

\* the loop over the thresholds with its calls of on_warning, the release
\* of _threshold_lock and the return of _check_warnings
ThrWarnLoop(t) ==
  /\ thr[t].pc = "warn_loop"
  /\ fired' = fired \cup Due(thr[t].sum)
  /\ threshold_lock' = [w \in DOMAIN threshold_lock |->
                          IF threshold_lock[w] = t THEN 0 ELSE threshold_lock[w]]
  /\ thr' = [thr EXCEPT ![t] = [@ EXCEPT !.pc = AfterWarnings(t), !.sum = NoSummary,
                                          !.cb = IF Due(thr[t].sum) # {}
                                                   THEN LockSeenBy(t) ELSE @]]
  /\ UNCHANGED <<ledgerVars, lock, lockFrame>>

\* session.reset(): tracker.reset() up to its first assignment
ThrResetEnter(t) ==
  /\ thr[t].pc = "idle"
  /\ Acquire(t)
  /\ thr' = [thr EXCEPT ![t] = [@ EXCEPT !.pc = "reset_body", !.op = "reset"]]
  /\ UNCHANGED <<ledgerVars, fired, threshold_lock, lockFrame>>

\* the three assignments of reset() and the end of its with block
ThrResetExit(t) ==
  /\ thr[t].pc = "reset_body"
  /\ reset
  /\ Release
  /\ thr' = [thr EXCEPT ![t] = [@ EXCEPT !.pc = "done", !.out = "ok"]]
  /\ UNCHANGED <<fired, threshold_lock, lockFrame>>

LockNext ==
  \E t \in Calls :
    \/ ThrReserveEnter(t)
    \/ ThrReserveExit(t)
    \/ ThrExceptBudget(t)
    \/ ThrTransportRaises(t)
    \/ ThrTransportReturns(t)
    \/ ThrResume(t)
    \/ ThrClose(t)
    \/ ThrCommitEnter(t)
    \/ ThrCommitExit(t)
    \/ ThrRollbackEnter(t)
    \/ ThrRollbackExit(t)
    \/ ThrSummaryEnter(t)
    \/ ThrGetEnter(t)
    \/ ThrGetExit(t)
    \/ ThrResetEnter(t)
    \/ ThrResetExit(t)

SpecLock == LockInit /\ [][LockNext]_vars

\* sessions with on_budget_exceeded and on_warning
CallbackInit == \E b \in SessionBudgets : NewSession(b, TRUE, TRUE)

CallbackNext ==
  \E t \in Calls :
    \/ ThrReserveEnter(t)
    \/ ThrReserveExit(t)
    \/ ThrExceptBudget(t)
    \/ ThrTransportRaises(t)
    \/ ThrTransportReturnsOf(t, {FALSE})
    \/ ThrCommitEnter(t)
    \/ ThrCommitExit(t)
    \/ ThrRollbackEnter(t)
    \/ ThrRollbackExit(t)
    \/ ThrGetEnter(t)
    \/ ThrGetExit(t)
    \/ ThrWarnEnter(t)
    \/ ThrWarnLoop(t)

SpecCallback == CallbackInit /\ [][CallbackNext]_vars

(* --------- one caller who also resets the session (SpecReuse) ----------- *)

\* session.reset(): `self._tracker.reset()` and nothing else
SessionReset ==
  /\ reset
  /\ UNCHANGED <<nextId, last, callVars, effects, burstCost, lockVars, fnVars, warnVars, notified, ret>>

ReuseNext == SeqNext \/ SessionReset

SpecReuse == WarnInit /\ [][ReuseNext]_vars

(* ------ a warning callback that calls create() again (SpecNested) ------- *)
(* One thread.  on_warning is a function that makes one budgeted call: call  *)
(* c + 1 is the create() made by the callback that call c is running, on the *)
(* wrapper object wrapper[c + 1] the callback holds (the one of the outer    *)
(* call, or another one).  The callback of call NCalls makes no call.        *)

NestedInit ==
  \E b \in SessionBudgets, x \in BOOLEAN, obj \in [Calls -> Calls] :
    /\ \A c \in Calls : obj[c] <= c
    /\ NewSessionOn(b, x, TRUE, obj)

\* create() up to the transport call: call 1 by the program, call c > 1 by the
\* callback call c - 1 is running
NestedCreate(c) ==
  /\ c > 1 => pc[c - 1] = "cw_callback"
  /\ CreateOf(c, {"sync"})

\* `with self._threshold_lock:` a threading.Lock, which is not reentrant: the
\* call waits until the lock of its wrapper object is free, whoever holds it
NestedAcquire(c) ==
  /\ pc[c] = "cw_lock"
  /\ threshold_lock[wrapper[c]] = 0
  /\ threshold_lock' = [threshold_lock EXCEPT ![wrapper[c]] = c]
  /\ widx' = [widx EXCEPT ![c] = 1]
  /\ pc' = [pc EXCEPT ![c] = "cw_loop"]
  /\ UNCHANGED <<ledgerVars, burstCost, lockVars, fnVars, on_warning, fired, warned, wsnap,
                 notified, ret, nextId, last, on_budget_exceeded, kind, rid, err, elem, effects>>

\* the body of the if: `self._fired_thresholds.add(threshold)`, then
\* on_warning is entered with the lock held
InvokeCallback(c) ==
  /\ pc[c] = "cw_fire"
  /\ c < NCalls
  /\ fired' = fired \cup {warning_thresholds[widx[c]]}
  /\ warned' = [warned EXCEPT ![widx[c]] = @ + 1]
  /\ pc' = [pc EXCEPT ![c] = "cw_callback"]
  /\ UNCHANGED <<ledgerVars, burstCost, lockVars, fnVars, on_warning, wsnap, widx, threshold_lock,
                 notified, ret, nextId, last, on_budget_exceeded, kind, rid, err, elem, effects>>

\* the callback whose nesting depth is the bound makes no call
LeafFire(c) == c = NCalls /\ Fire(c)

\* the create() of the callback is over and on_warning returns into the loop;
\* an error it raised leaves the with block, which releases the lock, and
\* _check_warnings, and reaches the except clause of the outer create()
CallbackReturns(c) ==
  /\ pc[c] = "cw_callback"
  /\ pc[c + 1] \in {"returned", "returned_none", "raised"}
  /\ IF pc[c + 1] = "raised"
       THEN /\ pc' = [pc EXCEPT ![c] = "except"]
            /\ err' = [err EXCEPT ![c] = err[c + 1]]
            /\ threshold_lock' = [w \in DOMAIN threshold_lock |->
                                    IF threshold_lock[w] = c THEN 0 ELSE threshold_lock[w]]
            /\ widx' = [widx EXCEPT ![c] = 0]
            /\ wsnap' = [wsnap EXCEPT ![c] = NoSnap]
       ELSE /\ pc' = [pc EXCEPT ![c] = "cw_loop"]
            /\ widx' = [widx EXCEPT ![c] = @ + 1]
            /\ UNCHANGED <<err, threshold_lock, wsnap>>
  /\ UNCHANGED <<ledgerVars, burstCost, lockVars, fnVars, on_warning, fired, warned,
                 notified, ret, nextId, last, on_budget_exceeded, kind, rid, elem, effects>>

NestedNext ==
  \E c \in Calls :
    \/ NestedCreate(c)
    \/ TransportRaises(c)
    \/ TransportReturns(c)
    \/ ExceptHandler(c)
    \/ GetSpent(c)
    \/ GetReserved(c)
    \/ NestedAcquire(c)
    \/ LoopTest(c)
    \/ InvokeCallback(c)
    \/ LeafFire(c)
    \/ CallbackReturns(c)
    \/ CheckWarningsReturns(c)

\* the thread runs as long as it has a statement to execute
SpecNested == NestedInit /\ [][NestedNext]_vars /\ WF_vars(NestedNext)

(* --------------- PricingTable._resolve_model (SpecPricing) --------------- *)
(* A model name is the sequence of its dash-free segments: split("-") gives  *)
(* the sequence and "-".join(parts[:i]) is its prefix of length i.  The two  *)
(* tables come from the JSON file given to the constructor: any non-empty    *)
(* model table and any alias table (here: of at most two models and at most  *)
(* one alias).                                                               *)

MaxSegs == 2
Segments == {"gpt", "mini"}
Names == UNION {[1..n -> Segments] : n \in 1..MaxSegs}

ModelTables == {{m1, m2} : m1 \in Names, m2 \in Names}
AliasTables == {EmptyMap} \cup {[k \in {a} |-> m] : a \in Names, m \in Names}

\* what a function that has not returned yet has returned
Pending == [tag |-> "pending"]

\* nothing but the function call f on the pricing table P
FnInit(P, f) ==
  /\ NewTracker(0)
  /\ nextId = 1
  /\ last = NoCall
  /\ IdleCallsFn(Calls, P, f)
  /\ effects = NoEffects(Ids)
  /\ burstCost = 0

\* the lengths i for which "-".join(parts[:i]) is a key of the model table
KnownPrefixes(P, model) == {i \in 1..Len(model) : SubSeq(model, 1, i) \in P.models}

Longest(K) == CHOOSE i \in K : \A j \in K : j <= i

\* PricingTable._resolve_model(model): the alias table, then the model table,
\* then the prefixes from the longest to the shortest, then PricingDataError
\* with the sorted keys of the model table
resolve_model(P, model) ==
  IF model \in DOMAIN P.aliases
    THEN [tag |-> "ok", name |-> P.aliases[model]]
    ELSE IF model \in P.models
      THEN [tag |-> "ok", name |-> model]
      ELSE IF KnownPrefixes(P, model) # {}
        THEN [tag |-> "ok", name |-> SubSeq(model, 1, Longest(KnownPrefixes(P, model)))]
        ELSE [tag |-> "PricingDataError", model |-> model, available |-> P.models]

PricingInit ==
  \E M \in ModelTables, A \in AliasTables, n \in Names :
    FnInit([models |-> M, aliases |-> A], [op |-> "_resolve_model", model |-> n, out |-> Pending])

ResolveModel ==
  /\ fcall.op = "_resolve_model"
  /\ fcall.out = Pending
  /\ fcall' = [fcall EXCEPT !.out = resolve_model(pricing, fcall.model)]
  /\ UNCHANGED <<ledgerVars, nextId, last, callVars, effects, burstCost, warnVars, notified, ret,
                 lockVars, pricing>>

PricingNext == ResolveModel

SpecPricing == PricingInit /\ [][PricingNext]_vars

(* ---------------- estimate_completion_tokens (SpecTokens) ---------------- *)
(* Token counts are integers >= 0; int(input_tokens * 1.5) is the floor of   *)
(* 3 * input_tokens / 2.  Every entry of model_defaults, and the default     *)
(* for a model without an entry, is 4096.                                    *)

default_max == 4096

\* max_tokens=None; also what fcall.out holds before the function returned
\* (an estimate is never negative)
None == 0 - 1

\* token counts around the values where the estimate changes its form
TokenCounts == {0, 1, 3, 2730, 2731, 4096, 4097}

Min(a, b) == IF a <= b THEN a ELSE b

estimate_completion_tokens(max_tokens, input_tokens, is_reasoning_model) ==
  LET estimated == IF max_tokens # None
                     THEN max_tokens
                     ELSE Min((input_tokens * 3) \div 2, default_max)
  IN  IF is_reasoning_model THEN estimated * 4 ELSE estimated

TokensInit ==
  \E mt \in TokenCounts \cup {None}, n \in TokenCounts, r \in BOOLEAN :
    FnInit(NoPricing, [op |-> "estimate_completion_tokens", max_tokens |-> mt,
                       input_tokens |-> n, is_reasoning_model |-> r, out |-> None])

\* CostEstimator.estimate_chat_completion_cost: output_tokens = estimate_completion_tokens(...)
EstimateCompletionTokens ==
  /\ fcall.op = "estimate_completion_tokens"
  /\ fcall.out = None
  /\ fcall' = [fcall EXCEPT !.out = estimate_completion_tokens(fcall.max_tokens, fcall.input_tokens,
                                                              fcall.is_reasoning_model)]
  /\ UNCHANGED <<ledgerVars, nextId, last, callVars, effects, burstCost, warnVars, notified, ret,
                 lockVars, pricing>>

TokensNext == EstimateCompletionTokens

SpecTokens == TokensInit /\ [][TokensNext]_vars

(* ----------------------- claims about the tracker ----------------------- *)

\* C1 (admission invariant): in the state right after a successful
\* check_and_reserve, spent + reserved <= budget, whatever commits, rollbacks
\* and resets came before it.
C1_AdmissionInvariant ==
  (last.op = "check_and_reserve" /\ last.result.tag = "ok")
    => spent + reserved <= budget

\* C1 witness: a reservation was admitted after money had been spent, and it
\* filled the budget exactly.
C1_Witness ==
  /\ last.op = "check_and_reserve"
  /\ last.result.tag = "ok"
  /\ last.arg > 0
  /\ spent > 0
  /\ spent + reserved = budget

\* C4 as stated: spent never exceeds the total budget.
C4_SpentWithinBudget == spent <= budget

\* C5 (check_and_reserve contract): a call with e > budget - spent - reserved
\* raises BudgetExceededError(estimated_cost = e, remaining = budget - spent -
\* reserved) and changes nothing; any other call adds e to reserved, records e
\* under an id that was not in the map and returns that id; spent is untouched.
C5_ReserveContract ==
  [][ last'.op = "check_and_reserve" =>
        LET e == last'.arg
            r == last'.result
        IN  IF e > budget - spent - reserved
              THEN /\ r.tag = "BudgetExceededError"
                   /\ r.estimated_cost = e
                   /\ r.remaining = budget - spent - reserved
                   /\ spent' = spent
                   /\ reserved' = reserved
                   /\ reservations' = reservations
              ELSE /\ r.tag = "ok"
                   /\ r.id \notin DOMAIN reservations
                   /\ effects[r.id] = << >>
                   /\ reservations' = reservations @@ (r.id :> e)
                   /\ reserved' = reserved + e
                   /\ spent' = spent
    ]_vars

\* C5 witness: a rejection while reservations are outstanding and money is
\* left (test_multiple_reservations: the third reserve is refused).
C5_Witness ==
  /\ last.op = "check_and_reserve"
  /\ last.result.tag = "BudgetExceededError"
  /\ last.result.remaining > 0
  /\ reserved > 0
  /\ Cardinality(DOMAIN reservations) >= 2

\* C6 (conservation): commit(id, actual) on an outstanding id succeeds without
\* any budget check, removes id, lowers reserved by the amount recorded under
\* id and raises spent by actual, whether actual is below, equal to or above
\* that amount.
C6_CommitConservation ==
  [][ (last'.op = "commit" /\ last'.id \in DOMAIN reservations) =>
        /\ last'.result.tag = "ok"
        /\ reservations' = [i \in DOMAIN reservations \ {last'.id} |-> reservations[i]]
        /\ reserved' = reserved - reservations[last'.id]
        /\ spent' = spent + last'.arg
        /\ budget' = budget
    ]_vars

\* C6 witness: a commit went through although it took spent over the budget
\* (its actual cost was above what was reserved; no re-check), with another
\* reservation still outstanding.
C6_Witness ==
  /\ last.op = "commit"
  /\ last.result.tag = "ok"
  /\ effects[last.id] = <<"commit">>
  /\ spent > budget
  /\ reserved > 0

\* C7: commit on an id that is not in the map (never issued, committed before,
\* rolled back before) raises ValueError and leaves spent, reserved and the
\* map as they were.
C7_CommitUnknown ==
  [][ (last'.op = "commit" /\ last'.id \notin DOMAIN reservations) =>
        /\ last'.result.tag = "ValueError"
        /\ spent' = spent
        /\ reserved' = reserved
        /\ reservations' = reservations
    ]_vars

\* C7 witness: a ValueError from a commit of an actual cost > 0 on an id that
\* had been rolled back, while another id had been committed.
C7_Witness ==
  /\ last.op = "commit"
  /\ last.result.tag = "ValueError"
  /\ last.arg > 0
  /\ effects[last.id] = <<"rollback">>
  /\ \E j \in Ids : effects[j] = <<"commit">>

\* C8 (idempotent rollback): rollback never raises and never touches spent; on
\* an outstanding id it removes the id and lowers reserved by its amount; on
\* any other id it changes nothing; after it the id is not in the map, so a
\* second rollback of the same id is the no-op case.
C8_RollbackIdempotent ==
  [][ last'.op = "rollback" =>
        /\ last'.result.tag = "ok"
        /\ spent' = spent
        /\ last'.id \notin DOMAIN reservations'
        /\ IF last'.id \in DOMAIN reservations
             THEN /\ reservations' =
                       [i \in DOMAIN reservations \ {last'.id} |-> reservations[i]]
                  /\ reserved' = reserved - reservations[last'.id]
             ELSE /\ reservations' = reservations
                  /\ reserved' = reserved
    ]_vars

\* C8 witness: a second rollback of an id (it found nothing; the id's one
\* recorded settlement is the first rollback), with another reservation still
\* outstanding and another id committed.
C8_Witness ==
  /\ last.op = "rollback"
  /\ ~last.found
  /\ effects[last.id] = <<"rollback">>
  /\ reserved > 0
  /\ \E j \in Ids : effects[j] = <<"commit">>

\* C2: NThreads concurrent check_and_reserve(c), c > 0, on a fresh tracker with
\* budget B and no settlement: once all have finished, exactly
\* min(NThreads, B \div c) of them succeeded, the others raised
\* BudgetExceededError, reserved = c * successes and remaining = B - c * successes.
C2_BurstOutcome ==
  (\A t \in Threads : pc[t] # "idle") =>
    LET ok == {t \in Threads : pc[t] = "reserved"}
        n == Cardinality(ok)
        m == IF NThreads <= budget \div burstCost THEN NThreads ELSE budget \div burstCost
    IN  /\ n = m
        /\ \A t \in Threads \ ok : pc[t] = "raised" /\ err[t] = "BudgetExceededError"
        /\ reserved = burstCost * n
        /\ budget - spent - reserved = budget - burstCost * n
        /\ DOMAIN reservations = {rid[t] : t \in ok}

\* C2 witness: the burst is over, some threads were admitted and some refused,
\* and the budget is used up exactly (10 x 2.00 on 10.00 in small).
C2_Witness ==
  /\ \A t \in Threads : pc[t] # "idle"
  /\ \E t \in Threads : pc[t] = "reserved"
  /\ \E t \in Threads : pc[t] = "raised"
  /\ burstCost > 1
  /\ reserved = budget

(* ----------------------- claims about the wrappers ---------------------- *)

\* the calls whose create() made a reservation and that are over: returned,
\* raised, cancelled, or their generator finished, was closed or was dropped
Over(c) ==
  /\ rid[c] # 0
  /\ pc[c] \in {"returned", "raised", "cancelled", "discarded", "gen_raised",
                "exhausted", "closed"}

\* C3 as stated (exactly-once settlement): once a budgeted call is over, its
\* reservation is out of the map and exactly one commit or rollback took
\* effect for it.
C3_ExactlyOnceSettlement ==
  \A c \in Calls :
    Over(c) => /\ rid[c] \notin DOMAIN reservations
               /\ Len(effects[rid[c]]) = 1

\* C9: non-streaming call, the transport raised: the except clause rolls the
\* reservation back (spent untouched, reserved lowered by the call's amount,
\* the id out of the map) and the caller gets the very error the transport
\* raised; and no caller has a transport error in hand while the reservation
\* is still held.
C9_Step ==
  \A c \in Calls :
    (pc[c] = "except" /\ kind[c] \in {"sync", "async"} /\ pc'[c] # "except") =>
      /\ pc'[c] = "raised"
      /\ err'[c] = err[c]
      /\ spent' = spent
      /\ rid[c] \in DOMAIN reservations
      /\ reserved' = reserved - reservations[rid[c]]
      /\ reservations' = [i \in DOMAIN reservations \ {rid[c]} |-> reservations[i]]

C9_TransportFailureRollsBack ==
  /\ [][C9_Step]_vars
  /\ [](\A c \in Calls :
          (pc[c] = "raised" /\ kind[c] \in {"sync", "async"} /\ err[c] = TransportError)
            => rid[c] \notin DOMAIN reservations)

\* C9 witness: a sync and an async non-streaming call both got the transport's
\* error, and the ledger is back where it was before them.
C9_Witness ==
  /\ \E c \in Calls : pc[c] = "raised" /\ kind[c] = "sync" /\ err[c] = TransportError
  /\ \E c \in Calls : pc[c] = "raised" /\ kind[c] = "async" /\ err[c] = TransportError
  /\ spent = 0
  /\ reserved = 0
  /\ reservations = EmptyMap

\* C10 as stated: an async non-streaming call that was cancelled in flight
\* no longer holds its reservation.
C10_ReleasedOnCancel ==
  \A c \in Calls :
    (pc[c] = "cancelled" /\ kind[c] = "async") => rid[c] \notin DOMAIN reservations

(* ----------------------- claims about the streams ----------------------- *)

\* the generator of call c has finished, was closed or was dropped
GenOver(c) == pc[c] \in {"discarded", "closed", "exhausted", "gen_raised"}

\* call c took the step (its position, its element or its settlements changed)
Acted(c) ==
  \/ pc'[c] # pc[c]
  \/ elem'[c] # elem[c]
  \/ effects'[c] # effects[c]

\* the step settled the outstanding reservation of call c by a commit of
\* `cost`, and by nothing else
CommittedWith(c, cost) ==
  /\ rid[c] \in DOMAIN reservations
  /\ spent' = spent + cost
  /\ reserved' = reserved - reservations[rid[c]]
  /\ reservations' = [i \in DOMAIN reservations \ {rid[c]} |-> reservations[i]]
  /\ effects'[rid[c]] = <<"commit">>

\* the step settled the outstanding reservation of call c by a rollback, and
\* by nothing else
RolledBack(c) ==
  /\ rid[c] \in DOMAIN reservations
  /\ spent' = spent
  /\ reserved' = reserved - reservations[rid[c]]
  /\ reservations' = [i \in DOMAIN reservations \ {rid[c]} |-> reservations[i]]
  /\ effects'[rid[c]] = <<"rollback">>

\* C11 as stated: once the wrapped sequence has been returned, whatever way
\* the consumer leaves it (not starting it included), the reservation is
\* released.
C11_ReleasedOnAnyExit ==
  \A c \in Calls : GenOver(c) => rid[c] \notin DOMAIN reservations

\* C12 (abandonment): the consumer got at least one element and closes the
\* sequence while no usage-bearing element has been processed (no commit for
\* the call yet): the close rolls the reservation back, spent is unchanged
\* and the call's estimate leaves reserved; a closed call that was never
\* committed holds nothing.
C12_Step ==
  \A c \in Calls :
    (pc[c] = "gen_suspended" /\ pc'[c] = "closed" /\ effects[rid[c]] = << >>)
      => RolledBack(c)

C12_AbandonRollsBack ==
  /\ [][C12_Step]_vars
  /\ [](\A c \in Calls :
          (pc[c] = "closed" /\ effects[rid[c]] # <<"commit">>)
            => rid[c] \notin DOMAIN reservations /\ effects[rid[c]] = <<"rollback">>)

\* C12 witness (scenario 5): a stream was closed after an element, its one
\* settlement is the rollback, and nothing is spent or reserved.
C12_Witness ==
  /\ \E c \in Calls : pc[c] = "closed" /\ effects[rid[c]] = <<"rollback">>
  /\ spent = 0
  /\ reserved = 0

\* C13: the transport's stream raises while producing elements and no commit
\* has been made for the call (none pending after the last yield either):
\* the generator rolls the reservation back (spent unchanged, the estimate
\* out of reserved) and the consumer gets the transport's error.
C13_Step ==
  \A c \in Calls :
    ( /\ pc[c] \in {"gen_created", "gen_suspended"}
      /\ pc'[c] = "gen_raised"
      /\ ~PendingCommit(c)
      /\ effects[rid[c]] = << >> )
      => RolledBack(c) /\ err'[c] = TransportError

C13_StreamErrorRollsBack == [][C13_Step]_vars

\* C13 witness: a Google stream and an OpenAI / Anthropic stream both raised
\* the transport's error to their consumers and were rolled back; the ledger
\* is as before the calls.
C13_Witness ==
  /\ \E c \in Calls : /\ pc[c] = "gen_raised" /\ kind[c] = "gstream"
                       /\ err[c] = TransportError /\ effects[rid[c]] = <<"rollback">>
  /\ \E c \in Calls : /\ pc[c] = "gen_raised" /\ kind[c] = "stream"
                       /\ err[c] = TransportError /\ effects[rid[c]] = <<"rollback">>
  /\ spent = 0
  /\ reserved = 0

\* C14: a stream iterated to exhaustion.  While elements without usage are
\* delivered the ledger is not touched and the reservation stays held; the
\* resumption after the usage-bearing element (the next element or the end of
\* the stream; for Google the end of the stream, from the last chunk) commits
\* the cost of the reported usage: spent grows by it, the estimate leaves
\* reserved; the rollback of the finally clause then changes nothing.
C14_Step ==
  \A c \in Calls :
    /\ ( /\ pc[c] \in {"gen_created", "gen_suspended"}
          /\ pc'[c] = "gen_suspended"
          /\ Acted(c)
          /\ ~PendingCommit(c) )
          => UNCHANGED <<ledgerVars, effects>>
    /\ ( /\ PendingCommit(c)
          /\ effects[rid[c]] = << >>
          /\ Acted(c)
          /\ pc'[c] \in {"gen_suspended", "exhausted"} )
          => CommittedWith(c, elem[c].cost)
    /\ ( /\ pc[c] = "gen_suspended"
          /\ CommitsAtEnd(c)
          /\ pc'[c] = "exhausted" )
          => CommittedWith(c, elem[c].cost)
    /\ ( /\ pc[c] = "gen_suspended"
          /\ effects[rid[c]] = <<"commit">>
          /\ pc'[c] = "exhausted" )
          => UNCHANGED <<ledgerVars, effects>>

C14_StreamCommitsOnExhaustion ==
  /\ [][C14_Step]_vars
  /\ [](\A c \in Calls :
          (pc[c] \in {"gen_created", "gen_suspended"} /\ effects[rid[c]] = << >>)
            => rid[c] \in DOMAIN reservations)

\* C14 witness (scenario 4): an OpenAI / Anthropic stream and a Google stream
\* were exhausted, each settled by its one commit; money was spent and
\* nothing is reserved.
C14_Witness ==
  /\ \E c \in Calls : /\ pc[c] = "exhausted" /\ kind[c] = "stream"
                       /\ effects[rid[c]] = <<"commit">>
  /\ \E c \in Calls : /\ pc[c] = "exhausted" /\ kind[c] = "gstream"
                       /\ effects[rid[c]] = <<"commit">>
  /\ spent > 0
  /\ reserved = 0

\* C15 as stated: once the usage-bearing element has been handed to the
\* consumer, the reservation is settled by commit, also when the consumer
\* closes the sequence right after that element.
C15_CommitAlsoOnClose ==
  [][ \A c \in Calls :
        (PendingCommit(c) /\ effects[rid[c]] = << >> /\ pc'[c] = "closed")
          => effects'[rid[c]] = <<"commit">>
    ]_vars

\* C16 as stated: the consumer of a wrapped stream sees no error that the
\* transport did not raise.
C16_NoForeignError ==
  \A c \in Calls : pc[c] = "gen_raised" => err[c] = TransportError

(* -------------------- claims about create() -------------------------------- *)

\* the call was refused by check_and_reserve
Refused(c) ==
  \/ pc[c] = "returned_none"
  \/ pc[c] = "raised" /\ err[c] = "BudgetExceededError"

\* C17: non-streaming call, reserve and transport succeeded: the reservation
\* is committed with the cost of the response's usage (spent grows by exactly
\* that, the estimate leaves reserved), then _check_warnings runs, and only
\* then create() returns the transport's response, without touching the
\* ledger again.
C17_Step ==
  \A c \in Calls :
    /\ (pc[c] = "in_flight" /\ pc'[c] \notin {"in_flight", "except"})
          => /\ pc'[c] = "cw_get_spent"
             /\ elem'[c].usage
             /\ CommittedWith(c, elem'[c].cost)
             /\ ret'[c] = "unset"
    /\ (pc[c] # "returned" /\ pc'[c] = "returned")
          => /\ pc[c] = "cw_loop"
             /\ ret'[c] = "response"
             /\ UNCHANGED <<ledgerVars, effects>>

C17_CommitWarnReturn ==
  /\ [][C17_Step]_vars
  /\ [](\A c \in Calls :
          pc[c] = "returned"
            => /\ ret[c] = "response"
               /\ rid[c] \notin DOMAIN reservations
               /\ effects[rid[c]] = <<"commit">>)

\* C17 witness: a call returned its response after a commit that spent more
\* than was reserved, and its warning check fired the first threshold; nothing
\* is reserved any more.
C17_Witness ==
  /\ \E c \in Calls : pc[c] = "returned" /\ ret[c] = "response"
  /\ warned[1] = 1
  /\ spent > budget
  /\ reserved = 0

\* C18: a call refused by check_and_reserve never gets to the transport,
\* streaming or not: the step into the transport is the step in which the
\* call's reservation is recorded, a refused call records none and stays
\* where it is, and every call past the transport call has a reservation id.
C18_Step ==
  \A c \in Calls :
    /\ (pc[c] = "idle" /\ pc'[c] = "in_flight")
          => /\ rid'[c] \notin DOMAIN reservations
             /\ rid'[c] \in DOMAIN reservations'
             /\ reserved' = reserved + reservations'[rid'[c]]
    /\ (pc[c] = "idle" /\ pc'[c] \notin {"idle", "in_flight"})
          => /\ Refused(c)'
             /\ rid'[c] = 0
             /\ UNCHANGED ledgerVars
    /\ Refused(c) => (pc'[c] = pc[c] /\ rid'[c] = rid[c])

C18_NoTransportWithoutReserve ==
  /\ [][C18_Step]_vars
  /\ [](\A c \in Calls : (pc[c] # "idle" /\ ~Refused(c)) => rid[c] # 0)

\* C18 witness: one call was refused (and raised) while another one, admitted
\* before it, is streaming.
C18_Witness ==
  /\ \E c \in Calls : pc[c] = "raised" /\ err[c] = "BudgetExceededError" /\ rid[c] = 0
  /\ \E c \in Calls : pc[c] = "gen_suspended"

\* C19: a refused reserve ends in exactly one of two ways.  With
\* on_budget_exceeded set, the callback is called once, with the
\* BudgetExceededError (the refused estimate, the remaining budget), and
\* create() returns None without raising; without it the error is raised and
\* no callback is called.  The ledger is unchanged either way.
C19_Step ==
  \A c \in Calls :
    (pc[c] = "idle" /\ pc'[c] \notin {"idle", "in_flight"})
      => /\ UNCHANGED ledgerVars
         /\ IF on_budget_exceeded
              THEN /\ pc'[c] = "returned_none"
                   /\ ret'[c] = "None"
                   /\ err'[c] = "none"
                   /\ Len(notified'[c]) = 1
                   /\ notified'[c][1].tag = "BudgetExceededError"
                   /\ notified'[c][1].estimated_cost > budget - spent - reserved
                   /\ notified'[c][1].remaining = budget - spent - reserved
              ELSE /\ pc'[c] = "raised"
                   /\ err'[c] = "BudgetExceededError"
                   /\ ret'[c] = "unset"
                   /\ notified'[c] = << >>

C19_CallbackOrRaise ==
  /\ [][C19_Step]_vars
  /\ [](\A c \in Calls :
          /\ Len(notified[c]) <= 1
          /\ notified[c] # << >> => (pc[c] = "returned_none" /\ err[c] = "none"))

\* C19 witness: with the callback set, a call was refused while another
\* call's reservation was held; the callback got the error and create()
\* returned None.
C19_Witness ==
  /\ on_budget_exceeded
  /\ \E c \in Calls : /\ pc[c] = "returned_none"
                       /\ ret[c] = "None"
                       /\ Len(notified[c]) = 1
  /\ reserved > 0

\* C20 as stated: on_warning is called at most once per threshold and
\* session, whatever wrapper objects the concurrent calls went through.
C20_FiresAtMostOnce ==
  \A i \in DOMAIN warned : warned[i] <= 1


(* -------------------- claims about reset and settlement ----------------- *)

\* C24: reset() sets spent and reserved to zero and empties the reservation
\* map in one step and leaves the budget as it was, so that the remaining
\* budget right after it equals the budget.
C24_ResetFrame ==
  [][last'.op = "reset" =>
       /\ spent' = 0
       /\ reserved' = 0
       /\ reservations' = EmptyMap
       /\ budget' = budget
       /\ budget' - spent' - reserved' = budget]_vars

\* a reset that wiped a committed spend and a reservation still outstanding
C24_Witness ==
  /\ last.op = "reset"
  /\ \E id \in Ids : effects[id] = <<"commit">>
  /\ \E id \in Ids : id < nextId /\ effects[id] = << >>

\* C30: for each reservation id at most one settlement (a commit or a
\* rollback) ever takes effect, whatever the order of commit and rollback
\* calls on that id.
C30_AtMostOneSettlement ==
  \A id \in Ids : Len(effects[id]) <= 1

\* a settlement attempted on an id that an earlier commit had settled
C30_Witness ==
  /\ last.op \in {"commit", "rollback"}
  /\ effects[last.id] = <<"commit">>
  /\ IF last.op = "commit" THEN last.result.tag = "ValueError" ELSE ~last.found


(* ------------------- claims about warnings and reset -------------------- *)

Settled == \A c \in Calls : Quiet(c)

Utilized(th) == budget > 0 /\ (spent + reserved) * 100 >= th * budget

\* C21: when the calls of a session do not overlap, the callback of a
\* threshold is invoked exactly once, by the warning check of the first call
\* whose commit brings the utilization to the threshold, and not again by
\* the calls after it: between two calls a threshold has fired once if the
\* utilization has reached it and not at all if it has not.
C21_OncePerThreshold ==
  Settled =>
    \A i \in DOMAIN warning_thresholds :
      warned[i] = IF Utilized(warning_thresholds[i]) THEN 1 ELSE 0

\* two calls have committed and returned, both at or above the first threshold
C21_Witness ==
  /\ \A c \in Calls : pc[c] = "returned" /\ effects[c] = <<"commit">>
  /\ spent = budget
  /\ budget > 1
  /\ warned[1] = 1

\* C22: after session.reset() the set of fired thresholds is empty, so that
\* a threshold that fired before the reset fires again.
C22_ResetClearsFired ==
  [][SessionReset => fired' = {}]_vars

\* C29: warnings are not lost: in a session with a warning callback and a
\* positive budget that is not reset, once every call has returned or raised
\* and at least one has committed, the callback of every threshold that the
\* final spend has reached has been invoked; and the payload of every
\* invocation carries the threshold, the budget, the spend that the check
\* read and a remaining value equal to budget - spent - reserved as read.
C29_Step ==
  \A c \in Calls :
    (pc[c] = "cw_fire" /\ pc'[c] # "cw_fire") =>
      LET th == warning_thresholds[widx[c]]
          p  == Payload(c, th)
      IN /\ warned'[widx[c]] = warned[widx[c]] + 1
         /\ p.threshold = th
         /\ p.budget = budget
         /\ p.spent = wsnap[c].spent
         /\ p.remaining = budget - wsnap[c].spent - wsnap[c].reserved

C29_WarningsNotLost ==
  /\ [](( /\ Settled
          /\ budget > 0
          /\ \E c \in Calls : effects[c] = <<"commit">> ) =>
         \A i \in DOMAIN warning_thresholds :
           spent * 100 >= warning_thresholds[i] * budget => warned[i] >= 1)
  /\ [][C29_Step]_vars

\* both calls have committed while the other one was still running, and each
\* threshold the final spend reaches has fired
C29_Witness ==
  /\ Settled
  /\ \A c \in Calls : effects[c] = <<"commit">>
  /\ spent * 100 >= warning_thresholds[2] * budget
  /\ \A i \in DOMAIN warning_thresholds : warned[i] >= 1


(* ------------------- claims about construction -------------------------- *)

\* C26: a negative budget is rejected at construction with an error and no
\* tracker comes into being, so nothing is ever reserved, committed or read
\* on it; a budget >= 0, zero included, is accepted and the tracker starts
\* with spent = 0, reserved = 0, no reservations and remaining = budget.
C26_Step ==
  /\ (last.op = "none" /\ last'.op = "__init__") =>
        IF last'.arg < 0
          THEN /\ last'.result.tag = "ValueError"
               /\ ~Constructed'
          ELSE /\ last'.result.tag = "ok"
               /\ Constructed'
               /\ budget' = last'.arg
               /\ spent' = 0
               /\ reserved' = 0
               /\ reservations' = EmptyMap
               /\ budget' - spent' - reserved' = last'.arg
  /\ ~Constructed => (last'.op \in {"none", "__init__"} /\ ~Constructed')
       \/ (last.op = "none" /\ Constructed')

C26_NegativeBudgetRejected == [][C26_Step]_vars

\* the constructor was called with a negative budget and raised
C26_Witness ==
  /\ last.op = "__init__"
  /\ last.arg < 0
  /\ last.result.tag = "ValueError"


(* --------------------- claims about the locks --------------------------- *)

\* C23: the values get_summary returns belong to one state of the ledger:
\* remaining equals budget - spent - reserved of the values returned with
\* it, and utilization_percent is (spent + reserved) / budget * 100, or 0
\* when the budget is 0.
C23_SummaryIsOneState ==
  \A t \in Calls :
    thr[t].out = "summary" =>
      /\ thr[t].sum.remaining
           = thr[t].sum.budget - thr[t].sum.spent - thr[t].sum.reserved
      /\ thr[t].sum.utilization_percent = Utilization(thr[t].sum)

\* the thread whose step this is leaves the `with self._lock` block it is in
Leaves(t, body) == thr[t].pc = body /\ thr'[t].pc # body

\* C27: every concurrent execution of check_and_reserve, commit, rollback,
\* reset and the getters is equivalent to running the same calls one at a
\* time in some order that respects real time: each call takes effect in
\* one step between its invocation and its return, namely when it leaves
\* the lock, where the ledger changes as the call run alone on the ledger
\* of that moment changes it and the call returns or raises what that run
\* returns or raises; no other step changes the ledger.
C27_Step ==
  \A t \in Calls :
    /\ Leaves(t, "res_body") =>
         /\ check_and_reserve(thr[t].e, t)
         /\ thr'[t].pc = "except_budget"
              <=> ReserveResult(thr[t].e, t).tag = "BudgetExceededError"
         /\ thr'[t].pc = "in_flight" => thr'[t].id = ReserveResult(thr[t].e, t).id
    /\ Leaves(t, "com_body") =>
         /\ \E a \in Usages : commit(thr[t].id, a)
         /\ thr'[t].out = "ValueError" <=> CommitResult(thr[t].id).tag = "ValueError"
    /\ Leaves(t, "rb_body") => rollback(thr[t].id)
    /\ Leaves(t, "reset_body") => reset
    /\ Leaves(t, "get_body") =>
         /\ thr'[t].sum[thr[t].get] = Field(thr[t].get)
         /\ UNCHANGED ledgerVars
    /\ (thr'[t] # thr[t] /\ thr[t].pc \notin {"res_body", "com_body", "rb_body", "reset_body"})
         => UNCHANGED ledgerVars

C27_Linearizable == [][C27_Step]_vars

\* a reset took effect between the reserve and the commit of a call, whose
\* commit then found no reservation
C27_Witness ==
  \E t, u \in Calls :
    /\ thr[t].op = "create" /\ thr[t].out = "ValueError" /\ thr[t].pc = "done"
    /\ thr[u].op = "reset" /\ thr[u].pc = "done"

\* C25: no user callback, on_budget_exceeded or on_warning, is invoked while
\* the thread that invokes it holds the tracker's lock.
C25_CallbackOutsideLock ==
  \A t \in Calls : thr[t].cb # "held"

\* one call was refused and its on_budget_exceeded was called, another one
\* committed and its warning check called on_warning
C25_Witness ==
  \E t, u \in Calls :
    /\ thr[t].out = "None" /\ thr[t].cb = "free"
    /\ thr[u].out = "response" /\ thr[u].cb = "free" /\ thr[u].pc = "done"

\* inside a method of the tracker, between `with self._lock:` and its end
InTracker(t) == thr[t].pc \in {"res_body", "com_body", "rb_body", "get_body", "reset_body"}

\* the transport call of t is in progress, or an element of its stream is
\* with the consumer
Outside(t) == thr[t].pc \in {"in_flight", "with_consumer"}

C31_Step ==
  /\ last'.op \in {"check_and_reserve", "rollback"} => spent' = spent
  /\ last'.op = "commit" => spent' >= spent
  /\ spent' < spent => (last'.op = "reset" /\ spent' = 0)

C31_SpentMonotone == [][C31_Step]_vars

\* a rollback released a reservation when something had been spent
C31_Witness ==
  /\ last.op = "rollback"
  /\ last.found
  /\ spent > 0

\* the sum of the amounts in the map m
RECURSIVE SumOf(_)
SumOf(m) ==
  IF DOMAIN m = {} THEN 0
  ELSE LET i == CHOOSE j \in DOMAIN m : TRUE
       IN m[i] + SumOf([j \in DOMAIN m \ {i} |-> m[j]])

C33_CeilingWhenWithin ==
  /\ spent + reserved <= budget
  /\ spent <= budget
  /\ Remaining >= 0

\* the budget is used up, part of it spent by a commit below its
\* reservation and part of it reserved
C33_Witness ==
  /\ spent > 0
  /\ reserved > 0
  /\ spent + reserved = budget
  /\ last.op = "check_and_reserve"
  /\ last.result.tag = "ok"


(* ------------------- claims about whole sessions ------------------------ *)

\* the sum of the actual costs of the calls in D that returned a response
RECURSIVE Billed(_)
Billed(D) ==
  IF D = {} THEN 0
  ELSE LET c == CHOOSE d \in D : TRUE
       IN (IF ret[c] = "response" THEN elem[c].cost ELSE 0) + Billed(D \ {c})

NoUsageSeen(c) ==
  /\ pc[c] \in {"gen_created", "gen_suspended"}
  /\ ~elem[c].usage
  /\ rid[c] \in DOMAIN reservations

\* C35: a stream that ends normally without any element that carries usage
\* is settled by rollback when the consumer exhausts it: the reservation is
\* released and nothing is added to spent.
C35_Step ==
  \A c \in Calls :
    (NoUsageSeen(c) /\ pc'[c] = "exhausted") =>
      /\ RolledBack(c)
      /\ rid[c] \notin DOMAIN reservations'

C35_NoUsageRollsBack == [][C35_Step]_vars

\* an OpenAI / Anthropic stream that yielded an element without usage and a
\* Google stream that yielded nothing were both exhausted and rolled back
C35_Witness ==
  \E c, d \in Calls :
    /\ kind[c] = "stream" /\ pc[c] = "exhausted" /\ effects[rid[c]] = <<"rollback">>
    /\ kind[d] = "gstream" /\ pc[d] = "exhausted" /\ effects[rid[d]] = <<"rollback">>
    /\ spent = 0
    /\ reserved = 0


\* reset() ran while call c was in flight: its reservation is gone from the map
WipedInFlight(c) == pc[c] = "in_flight" /\ rid[c] \notin DOMAIN reservations

\* C36: if reset() runs while a non-streaming call is in flight, the call's
\* later commit fails with ValueError, the cleanup rollback of the wrapper is
\* a no-op, the wrapper raises that error and does not return the response,
\* no spend is recorded for the call, and reserved does not become negative.
C36_Step ==
  \A c \in Calls :
    /\ (WipedInFlight(c) /\ pc'[c] # "in_flight" /\ err'[c] # TransportError) =>
          /\ pc'[c] = "except"
          /\ err'[c] = "ValueError"
          /\ ret'[c] # "response"
          /\ UNCHANGED ledgerVars
    /\ (pc[c] = "except" /\ err[c] = "ValueError" /\ pc'[c] # "except") =>
          /\ pc'[c] = "raised"
          /\ err'[c] = "ValueError"
          /\ ret'[c] # "response"
          /\ UNCHANGED ledgerVars

C36_Inv ==
  /\ reserved >= 0
  /\ \A c \in Calls :
       err[c] = "ValueError" =>
         /\ pc[c] \in {"except", "raised"}
         /\ ret[c] # "response"
         /\ effects[rid[c]] = << >>

C36_ResetInFlight == []C36_Inv /\ [][C36_Step]_vars

\* a call whose reservation reset() wiped has raised ValueError, after an
\* earlier call had spent something that the reset wiped too
C36_Witness ==
  \E c, d \in Calls :
    /\ pc[c] = "raised"
    /\ err[c] = "ValueError"
    /\ pc[d] = "returned"
    /\ effects[rid[d]] = <<"commit">>
    /\ spent = 0
    /\ reserved = 0


\* C37: no spurious warning.  The callback for threshold t is invoked only
\* if, at some instant before, (spent + reserved) / budget * 100 of the
\* ledger was >= t: the local of spent never exceeds the ledger's spent, so
\* at the instant reserved is read the ledger's spent + reserved is at least
\* the sum of the two locals; the locals do not change until the check
\* returns; and the callback is invoked only for a threshold the locals reach.
C37_Step ==
  \A c \in Calls :
    /\ (pc[c] = "cw_get_reserved" /\ pc'[c] = "cw_lock") =>
          /\ wsnap'[c].spent + wsnap'[c].reserved <= spent + reserved
          /\ UNCHANGED <<spent, reserved>>
    /\ (pc[c] \in {"cw_lock", "cw_loop", "cw_fire"} /\ pc'[c] # "returned") =>
          wsnap'[c] = wsnap[c]

C37_Inv ==
  \A c \in Calls :
    /\ pc[c] = "cw_get_reserved" => wsnap[c].spent <= spent
    /\ pc[c] = "cw_fire" =>
          /\ widx[c] \in 1..Len(warning_thresholds)
          /\ Crossed(c, warning_thresholds[widx[c]])

C37_NoSpuriousWarning == []C37_Inv /\ [][C37_Step]_vars

\* a call is about to invoke the callback on locals that lag the ledger:
\* another call committed after its read of spent
C37_Witness ==
  \E c \in Calls :
    /\ pc[c] = "cw_fire"
    /\ wsnap[c].spent < spent


\* C38: an on_warning callback that makes a budgeted call through the same
\* wrapper object terminates: the warning check of the nested call does not
\* wait forever for the _threshold_lock its own thread holds around the callback.
C38_NestedCallTerminates ==
  \A d \in Calls \ {1} :
    (pc[d] = "in_flight" /\ wrapper[d] = wrapper[d - 1]) ~> Quiet(d)


\* C39: model-name resolution tries, in this order, an exact match against
\* the model table, else the alias table, else the longest prefix of
\* dash-delimited segments that is a known model, else it fails with the
\* not-found error naming the available models; a name that is a key of both
\* tables resolves to itself.
C39_ResolutionOrder ==
  (fcall.op = "_resolve_model" /\ fcall.out # Pending) =>
    LET m == fcall.model
        K == KnownPrefixes(pricing, m)
    IN  IF m \in pricing.models
          THEN fcall.out = [tag |-> "ok", name |-> m]
          ELSE IF m \in DOMAIN pricing.aliases
            THEN fcall.out = [tag |-> "ok", name |-> pricing.aliases[m]]
            ELSE IF K # {}
              THEN fcall.out = [tag |-> "ok", name |-> SubSeq(m, 1, Longest(K))]
              ELSE /\ fcall.out.tag = "PricingDataError"
                   /\ fcall.out.available = pricing.models

\* C40: the output-token estimate is the cap when max_tokens is given and the
\* per-model ceiling when it is not; for a reasoning model the result is
\* multiplied by 4 in either case.
C40_OutputEstimate ==
  (fcall.op = "estimate_completion_tokens" /\ fcall.out # None) =>
    LET base == IF fcall.max_tokens # None THEN fcall.max_tokens ELSE default_max
    IN  fcall.out = IF fcall.is_reasoning_model THEN 4 * base ELSE base

=============================================================================
